---- MODULE Spec2Model ----
(***************************************************************************)
(* Model of the agile-dashboard core: the time-interval rate index         *)
(* (src/models/rates.rs), the tariff client with its page-level retry and  *)
(* pagination (src/services/api.rs), and the generic backoff driver        *)
(* (src/services/retry.rs) as used by the carbon-intensity client          *)
(* (src/services/carbon_api.rs).                                           *)
(*                                                                         *)
(* Two specifications share the variables:                                 *)
(*   Spec       one client task running one fetch operation against a      *)
(*              nondeterministic upstream;                                 *)
(*   SpecRates  an index built by Rates::new from bounded input records,   *)
(*              queried at bounded instants.                               *)
(***************************************************************************)
EXTENDS Integers, Sequences, FiniteSets, TLC

VARIABLES
    \* ---- rate index (models/rates.rs) ----
    records,        \* the Vec<Rate> handed to Rates::new
    data,           \* Rates.data, the sorted index
    query,          \* the last query applied to the index and its result
    \* ---- client task (services/api.rs, services/retry.rs) ----
    op,             \* the operation the task runs ("none" before it starts)
    pc,             \* the task's position (its pending await)
    url,            \* the URL of the page being fetched (next_url)
    attempt,        \* the loop variable of the retry loop
    max_attempts,   \* max_retries / max_attempts of the running retry loop
    retry_delay_ms, \* the u32 backoff delay
    all_rates,      \* fetch_paginated's accumulator
    page,           \* fetch_paginated's page counter
    result,         \* the value returned to the caller
    \* ---- history of the run ----
    reqs,           \* requests sent (operation invocations) in this retry loop
    answers,        \* the answers received in this retry loop, in order
    waits,          \* the backoff waits completed in this retry loop
    fetched,        \* the payloads of the pages that returned successfully
    links,          \* the next links of the pages that returned successfully
    requested,      \* the page requests of fetch_paginated: how many pages had
                    \* returned when the URL was requested, and the URL
    failed,         \* the error returned by the page fetch that failed
    page_delays,    \* the inter-page delays completed by fetch_paginated (ms)
    script,         \* a finished fetch_page_with_retry call whose attempts are
                    \* played again to retry_with_backoff
    \* ---- a polling hook (hooks/use_rates.rs and its siblings) ----
    hook,           \* which hook the component uses
    mounted,        \* the component using the hook is mounted
    region,         \* the region prop of the current render
    trigger,        \* the polling trigger state
    deps,           \* the dependencies the effect last ran with
    state,          \* the data state
    tasks,          \* the tasks spawned by the effect runs, oldest first
    checks,         \* history: each test of the aborted flag and what followed
    \* ---- the debounced resize listener (utils/debounce.rs) ----
    listening,      \* the EventListener is alive
    clock,          \* the time in milliseconds
    timeout_handle, \* the Option<Timeout> held by the listener
    timers,         \* the timeouts pending in the browser
    next_timer,     \* the identifier the next Timeout gets
    resized,        \* history: the times of the resize events
    runs            \* history: the callback runs, each with its time and the
                    \* number of resize events before it

rateVars  == <<records, data, query>>
fetchVars == <<op, pc, url, attempt, max_attempts, retry_delay_ms, all_rates,
               page, result>>
histVars  == <<reqs, answers, waits, fetched, links, requested, failed, page_delays>>
hookVars  == <<hook, mounted, region, trigger, deps, state, tasks, checks>>
resizeVars == <<listening, clock, timeout_handle, timers, next_timer, resized, runs>>
scriptVars == <<script>>
restVars  == <<hookVars, resizeVars, scriptVars>>
vars      == <<rateVars, fetchVars, histVars, restVars>>

(***************************************************************************)
(* Bounds of the model.                                                    *)
(***************************************************************************)
MaxTime    == 3     \* instants are 0..MaxTime
MaxRecords == 3     \* length of the input of Rates::new
MaxPages   == 3     \* pages a paginated fetch may follow
MaxDayRecords == 2  \* length of the input of Rates::new for the date-aware queries
MaxStrLen  == 2     \* length of the string given to Region::from_str
MaxEffectRuns == 3  \* effect runs of a hook while its component is mounted
MaxTicks   == 6     \* steps of the clock of the resize listener
TickMs     == 75    \* milliseconds in one step of that clock
MaxResizes == 3     \* resize events the listener gets

(***************************************************************************)
(* Program constants.                                                      *)
(***************************************************************************)
MAX_RETRY_ATTEMPTS  == 10
PAGINATION_DELAY_MS == 5
INITIAL_DELAY_MS    == 100
BACKOFF_MULTIPLIER  == 5
U16                 == 256 * 256

\* The multiplication in a u16, wrapping at 2^16.
MulU16(a, k) == (a * k) % U16

\* u32 multiplication by a small factor, wrapping at 2^32 = U16 * U16; the
\* operand is split in two 16-bit limbs so that no intermediate value leaves
\* the range of the checker's integers.
MulU32(a, k) ==
    LET lo == (a % U16) * k
        hi == (a \div U16) * k + (lo \div U16)
    IN  (hi % U16) * U16 + (lo % U16)

(***************************************************************************)
(* Option<T>: None is the empty sequence, Some(x) the one-element one.     *)
(***************************************************************************)
None    == <<>>
Some(x) == <<x>>

(***************************************************************************)
(* models/rates.rs: Rate and the index.  A price is the decimal literal the *)
(* upstream sent, in tenths of a penny; 0 is the 0.0 the statistics        *)
(* default to.                                                             *)
(***************************************************************************)
Times  == 0..MaxTime
Prices == {2, 5}

Rate == {r \in [valid_from : Times, valid_to : Times, value_inc_vat : Prices] :
            r.valid_from < r.valid_to}

RECURSIVE SeqsUpTo(_, _)
SeqsUpTo(S, n) ==
    IF n = 0 THEN {<<>>}
    ELSE LET shorter == SeqsUpTo(S, n - 1)
         IN  shorter \cup {Append(s, x) : s \in {q \in shorter : Len(q) = n - 1}, x \in S}

\* Insert r before the elements of its own key: equal keys end up reversed.
RECURSIVE InsertBeforeEqualKey(_, _)
InsertBeforeEqualKey(s, r) ==
    IF s = <<>> THEN <<r>>
    ELSE IF Head(s).valid_from < r.valid_from
         THEN <<Head(s)>> \o InsertBeforeEqualKey(Tail(s), r)
         ELSE <<r>> \o s

\* Insert r after every element whose key is <= r's key (stable).
RECURSIVE InsertByKey(_, _)
InsertByKey(s, r) ==
    IF s = <<>> THEN <<r>>
    ELSE IF Head(s).valid_from <= r.valid_from
         THEN <<Head(s)>> \o InsertByKey(Tail(s), r)
         ELSE <<r>> \o s

\* data.sort_by_key(|r| r.valid_from): a stable sort.
RECURSIVE SortByKey(_)
SortByKey(s) ==
    IF s = <<>> THEN <<>>
    ELSE InsertByKey(SortByKey(SubSeq(s, 1, Len(s) - 1)), s[Len(s)])

RatesNew(d) == SortByKey(d)

\* Pairwise non-overlapping half-open intervals (by position, so two equal
\* records overlap each other).
NonOverlapping(d) ==
    \A i, j \in 1..Len(d) :
        i # j => (d[i].valid_to <= d[j].valid_from \/ d[j].valid_to <= d[i].valid_from)

\* The records of d whose interval covers the instant.
Covering(d, time) ==
    {d[i] : i \in {k \in 1..Len(d) : d[k].valid_from <= time /\ time < d[k].valid_to}}

\* slice::partition_point(|r| r.valid_from <= time): binary search for the
\* first index (0-based) whose element does not satisfy the predicate.
RECURSIVE PartitionSearch(_, _, _, _)
PartitionSearch(d, time, lo, hi) ==
    IF lo >= hi THEN lo
    ELSE LET mid == lo + ((hi - lo) \div 2)
         IN  IF d[mid + 1].valid_from <= time
             THEN PartitionSearch(d, time, mid + 1, hi)
             ELSE PartitionSearch(d, time, lo, mid)

PartitionPoint(d, time) == PartitionSearch(d, time, 0, Len(d))

\* rate_at without the final valid_to check.
rate_at_stale(d, time) ==
    LET idx == PartitionPoint(d, time)
    IN  IF idx = 0 THEN None ELSE Some(d[idx])

rate_at(d, time) ==
    LET idx == PartitionPoint(d, time)
    IN  IF idx = 0 THEN None                           \* idx.checked_sub(1)?
        ELSE LET rate == d[idx]                        \* data.get(idx - 1)?
             IN  IF rate.valid_to > time THEN Some(rate) ELSE None

\* next_rate taking the successor of the current interval in index order.
next_rate_by_index(d, time) ==
    LET idx == PartitionPoint(d, time)
    IN  IF rate_at(d, time) = None THEN None
        ELSE IF idx + 1 <= Len(d) THEN Some(d[idx + 1]) ELSE None

next_rate(d, time) ==
    LET current == rate_at(d, time)
    IN  IF current = None THEN None
        ELSE rate_at(d, current[1].valid_to)

(***************************************************************************)
(* AppError (models/error.rs): the kind and what its message carries.      *)
(***************************************************************************)
AppError(kind, text, code) == [kind |-> kind, detail |-> <<text, code>>]
RateLimited                == AppError("RateLimited", "Rate limited", 0)

Ok(v)  == [ok |-> TRUE,  value |-> v]
Err(e) == [ok |-> FALSE, value |-> e]

\* f64::min / f64::max folded from +/-INFINITY.  The accumulator is an
\* Option: None stands for the infinity.
RECURSIVE FoldMin(_, _)
FoldMin(d, acc) ==
    IF d = <<>> THEN acc
    ELSE LET val == Head(d).value_inc_vat
         IN  FoldMin(Tail(d), IF acc = None \/ val < acc[1] THEN Some(val) ELSE acc)

RECURSIVE FoldMax(_, _)
FoldMax(d, acc) ==
    IF d = <<>> THEN acc
    ELSE LET val == Head(d).value_inc_vat
         IN  FoldMax(Tail(d), IF acc = None \/ val > acc[1] THEN Some(val) ELSE acc)

(***************************************************************************)
(* f64 arithmetic on prices.  A price is held as its decimal literal in     *)
(* tenths; the f64 it parses to, and every f64 sum and quotient of such    *)
(* values, is a multiple of 2^-60 below 16, held exactly as four 16-bit    *)
(* limbs (least significant first) of its count of 2^-60 units.  Each      *)
(* operation rounds to nearest, ties to even, at 53 significant bits.      *)
(***************************************************************************)
F64Zero == <<0, 0, 0, 0>>

\* Exact sum of two limb vectors.
NatAdd(a, b) ==
    LET s1 == a[1] + b[1]
        s2 == a[2] + b[2] + (s1 \div U16)
        s3 == a[3] + b[3] + (s2 \div U16)
        s4 == a[4] + b[4] + (s3 \div U16)
    IN  <<s1 % U16, s2 % U16, s3 % U16, s4>>

\* Exact quotient and remainder of a limb vector by a small integer.
NatDivSmall(a, n) ==
    LET q4 == a[4] \div n
        r4 == a[4] % n
        q3 == (r4 * U16 + a[3]) \div n
        r3 == (r4 * U16 + a[3]) % n
        q2 == (r3 * U16 + a[2]) \div n
        r2 == (r3 * U16 + a[2]) % n
        q1 == (r2 * U16 + a[1]) \div n
        r1 == (r2 * U16 + a[1]) % n
    IN  [q |-> <<q1, q2, q3, q4>>, r |-> r1]

RECURSIVE BitLen16(_)
BitLen16(x) == IF x = 0 THEN 0 ELSE 1 + BitLen16(x \div 2)

\* Number of significant bits of a limb vector.
BitLen(a) ==
    IF a[4] # 0 THEN 48 + BitLen16(a[4])
    ELSE IF a[3] # 0 THEN 32 + BitLen16(a[3])
    ELSE IF a[2] # 0 THEN 16 + BitLen16(a[2])
    ELSE BitLen16(a[1])

RECURSIVE Pow2(_)
Pow2(n) == IF n = 0 THEN 1 ELSE 2 * Pow2(n - 1)

\* Round a (plus a nonzero fraction of a unit when sticky) to 53 significant
\* bits, to nearest and ties to even.  At most 11 bits are dropped, all of
\* them in the lowest limb.
F64Round(a, sticky) ==
    LET drop == BitLen(a) - 53
    IN  IF drop <= 0 THEN a
        ELSE LET u    == Pow2(drop)
                 rem  == a[1] % u
                 kept == <<a[1] - rem, a[2], a[3], a[4]>>
                 up   == \/ 2 * rem > u
                         \/ 2 * rem = u /\ (sticky \/ (a[1] \div u) % 2 = 1)
             IN  IF up THEN NatAdd(kept, <<u, 0, 0, 0>>) ELSE kept

\* The f64 a decimal literal of t tenths parses to.
F64Parse(t) ==
    LET d == NatDivSmall(<<0, 0, 0, t * 4096>>, 10)
    IN  F64Round(d.q, d.r # 0)

F64Add(x, y) == F64Round(NatAdd(x, y), FALSE)

\* x / (n as f64)
F64DivInt(x, n) ==
    LET d == NatDivSmall(x, n)
    IN  F64Round(d.q, d.r # 0)

F64Lt(x, y) ==
    \/ x[4] < y[4]
    \/ x[4] = y[4] /\ x[3] < y[3]
    \/ x[4] = y[4] /\ x[3] = y[3] /\ x[2] < y[2]
    \/ x[4] = y[4] /\ x[3] = y[3] /\ x[2] = y[2] /\ x[1] < y[1]

F64Le(x, y) == ~F64Lt(y, x)

\* sum += val
RECURSIVE FoldSum(_, _)
FoldSum(d, acc) ==
    IF d = <<>> THEN acc
    ELSE FoldSum(Tail(d), F64Add(acc, F64Parse(Head(d).value_inc_vat)))

\* rate.map(|r| r.value_inc_vat).unwrap_or(0.0)
PriceOrZero(rate) == IF rate = None THEN 0 ELSE rate[1].value_inc_vat

\* The price statistics with min folded from 0.0 instead of +INFINITY.
PriceStats_min_from_zero(d, time) ==
    LET min == FoldMin(d, Some(0))[1]
        max == FoldMax(d, None)[1]
    IN  [min         |-> min,
         max         |-> max,
         avg         |-> F64DivInt(FoldSum(d, F64Zero), Len(d)),
         current     |-> PriceOrZero(rate_at(d, time)),
         next        |-> PriceOrZero(next_rate(d, time)),
         price_range |-> <<min, max>>]

\* The price statistics; avg is the f64 quotient sum / len.
PriceStats(d, time) ==
    LET min == FoldMin(d, None)[1]
        max == FoldMax(d, None)[1]
    IN  [min         |-> min,
         max         |-> max,
         avg         |-> F64DivInt(FoldSum(d, F64Zero), Len(d)),
         current     |-> PriceOrZero(rate_at(d, time)),
         next        |-> PriceOrZero(next_rate(d, time)),
         price_range |-> <<min, max>>]

\* stats_at failing when no interval covers the instant.
stats_at_strict(d, time) ==
    IF d = <<>> \/ rate_at(d, time) = None
    THEN Err(AppError("DataError", "No data available", 0))
    ELSE Ok(PriceStats(d, time))

stats_at(d, time) ==
    IF d = <<>>
    THEN Err(AppError("DataError", "No data available", 0))
    ELSE Ok(PriceStats(d, time))


\* TrackerRates::new sorts as Rates::new does.
TrackerRatesNew(d) == SortByKey(d)

\* Iterator::find: the record at the first of the positions the closure
\* accepts.
Find(d, hits) ==
    IF hits = {} THEN None
    ELSE Some(d[CHOOSE i \in hits : \A j \in hits : i <= j])

\* TrackerRates::current_rate with the end of the interval included.
tracker_current_rate_inclusive_end(d, now) ==
    LET covers(r) == r.valid_from <= now /\ r.valid_to >= now
    IN  Find(d, { i \in 1..Len(d) : covers(d[i]) })

\* TrackerRates::current_rate, with the now it reads from the clock.
tracker_current_rate(d, now) ==
    LET covers(r) == r.valid_from <= now /\ r.valid_to > now
    IN  Find(d, { i \in 1..Len(d) : covers(d[i]) })

(***************************************************************************)
(* The rate index under query: SpecRates.                                  *)
(***************************************************************************)
NoQuery == [fn |-> "none", time |-> 0, out |-> None]

InitClientIdle ==
    /\ script = None
    /\ op = "none"
    /\ pc = "idle"
    /\ url = None
    /\ attempt = 0
    /\ max_attempts = 0
    /\ retry_delay_ms = 0
    /\ all_rates = <<>>
    /\ page = 0
    /\ result = None
    /\ reqs = 0
    /\ answers = <<>>
    /\ waits = <<>>
    /\ fetched = <<>>
    /\ links = <<>>
    /\ requested = {}
    /\ failed = None
    /\ page_delays = <<>>

\* No hook is in use.
InitHookIdle ==
    /\ hook = "none"
    /\ mounted = FALSE
    /\ region = "none"
    /\ trigger = 0
    /\ deps = None
    /\ state = [tag |-> "Loading", region |-> "none", task |-> 0]
    /\ tasks = <<>>
    /\ checks = {}

\* No resize listener exists.
InitResizeIdle ==
    /\ listening = FALSE
    /\ clock = 0
    /\ timeout_handle = None
    /\ timers = {}
    /\ next_timer = 1
    /\ resized = <<>>
    /\ runs = <<>>

\* Rates::new(records) for every bounded input vector.
InitRates ==
    /\ records \in SeqsUpTo(Rate, MaxRecords)
    /\ data = RatesNew(records)
    /\ query = NoQuery
    /\ InitClientIdle
    /\ InitHookIdle
    /\ InitResizeIdle

QueryRateAt(time) ==
    /\ query' = [fn |-> "rate_at", time |-> time, out |-> rate_at(data, time)]
    /\ UNCHANGED <<records, data, fetchVars, histVars, restVars>>

QueryNextRate(time) ==
    /\ query' = [fn |-> "next_rate", time |-> time, out |-> next_rate(data, time)]
    /\ UNCHANGED <<records, data, fetchVars, histVars, restVars>>

QueryStatsAt(time) ==
    /\ query' = [fn |-> "stats_at", time |-> time, out |-> stats_at(data, time)]
    /\ UNCHANGED <<records, data, fetchVars, histVars, restVars>>

\* TrackerRates::new(records).current_rate() with the clock at now.
QueryTrackerCurrentRate(now) ==
    /\ query' = [fn |-> "current_rate", time |-> now,
                 out |-> tracker_current_rate(TrackerRatesNew(records), now)]
    /\ UNCHANGED <<records, data, fetchVars, histVars, restVars>>

NextRates ==
    \/ \E time \in Times : QueryRateAt(time)
    \/ \E time \in Times : QueryNextRate(time)
    \/ \E time \in Times : QueryStatsAt(time)
    \/ \E now \in Times : QueryTrackerCurrentRate(now)

SpecRates == InitRates /\ [][NextRates]_vars


(***************************************************************************)
(* The upstream: what one HTTP request can be answered with.               *)
(***************************************************************************)
Statuses        == {200, 304, 400, 401, 403, 404, 429, 500}
TransportErrors == {"timeout", "request", "network"}

\* The record vectors a page can carry (not in valid_from order).
Payloads ==
    { <<>>,
      <<[valid_from |-> 1, valid_to |-> 2, value_inc_vat |-> 5]>>,
      <<[valid_from |-> 2, valid_to |-> 3, value_inc_vat |-> 2],
        [valid_from |-> 0, valid_to |-> 1, value_inc_vat |-> 5]>> }

\* URLs are numbered; the initial URL is 1 and a next link may name any URL.
Urls       == 1..MaxPages
InitialUrl == 1
NextLinks  == {None} \cup {Some(u) : u \in Urls}

is_success(status) == status >= 200 /\ status <= 299

\* OctopusClient::classify_error
classify_error(e) ==
    IF e = "timeout" THEN AppError("ApiError", "Request timeout", 0)
    ELSE IF e = "request" THEN AppError("ApiError", "Request error", 0)
    ELSE AppError("ApiError", "Network error", 0)

\* error_for_status with 403 classified like any other client error.
error_for_status_401_only(status) ==
    IF status = 429 THEN RateLimited
    ELSE IF status = 401 THEN AppError("AuthError", "Authentication failed", status)
    ELSE IF status = 404 THEN AppError("NotFound", "Resource not found", status)
    ELSE IF status >= 400 /\ status <= 499 THEN AppError("ApiError", "Client error", status)
    ELSE IF status >= 500 /\ status <= 599 THEN AppError("ApiError", "Server error", status)
    ELSE AppError("ApiError", "Unexpected status", status)

\* error_for_status with 429 classified like any other client error.
error_for_status_no_429(status) ==
    IF status = 401 \/ status = 403 THEN AppError("AuthError", "Authentication failed", status)
    ELSE IF status = 404 THEN AppError("NotFound", "Resource not found", status)
    ELSE IF status >= 400 /\ status <= 499 THEN AppError("ApiError", "Client error", status)
    ELSE IF status >= 500 /\ status <= 599 THEN AppError("ApiError", "Server error", status)
    ELSE AppError("ApiError", "Unexpected status", status)

\* OctopusClient::error_for_status
error_for_status(status) ==
    IF status = 429 THEN RateLimited
    ELSE IF status = 401 \/ status = 403 THEN AppError("AuthError", "Authentication failed", status)
    ELSE IF status = 404 THEN AppError("NotFound", "Resource not found", status)
    ELSE IF status >= 400 /\ status <= 499 THEN AppError("ApiError", "Client error", status)
    ELSE IF status >= 500 /\ status <= 599 THEN AppError("ApiError", "Server error", status)
    ELSE AppError("ApiError", "Unexpected status", status)

ParseError == AppError("ApiError", "Failed to parse response", 0)

(***************************************************************************)
(* The client task: Spec.                                                  *)
(***************************************************************************)
Init ==
    /\ records = <<>>
    /\ data = <<>>
    /\ query = NoQuery
    /\ InitClientIdle
    /\ InitHookIdle
    /\ InitResizeIdle

\* The operation returns r to its caller; a successful tariff fetch is
\* wrapped by its caller in Rates::new / TrackerRates::new.
Return(r) ==
    /\ result' = Some(r)
    /\ pc' = "done"
    /\ data' = IF r.ok /\ op \in {"agile", "tracker", "historical"}
               THEN RatesNew(r.value) ELSE data

\* An answer came in: for an HTTP request the transport failure or the status
\* and whether the body parsed, for a retried operation its result.
Answered(a) == answers' = Append(answers, a)

HttpAnswer(transport, status, parses) ==
    [transport |-> transport, status |-> status, parses |-> parses]
TransportFailure(e) == HttpAnswer(e, 0, FALSE)
HttpStatus(status)  == HttpAnswer("none", status, FALSE)
HttpBody(status)    == HttpAnswer("none", status, TRUE)

(***************************************************************************)
(* OctopusClient::fetch, as called by fetch_agile_rates and                *)
(* fetch_tracker_rates_at: one request, no retry.                          *)
(***************************************************************************)
StartFetch(which) ==
    /\ pc = "idle"
    /\ op' = which
    /\ url' = Some(InitialUrl)
    /\ pc' = "fetch_await"
    /\ reqs' = 1
    /\ UNCHANGED <<attempt, max_attempts, retry_delay_ms, all_rates, page, result,
                   answers, waits, fetched, links, failed, page_delays, requested, rateVars, restVars>>

StartAgile   == StartFetch("agile")
StartTracker == StartFetch("tracker")

FetchReturn(c, r) ==
    /\ pc = "fetch_await"
    /\ Answered(c)
    /\ Return(r)
    /\ UNCHANGED <<op, url, attempt, max_attempts, retry_delay_ms, all_rates, page,
                   reqs, waits, fetched, links, failed, page_delays, requested,
                   records, query, restVars>>

FetchTransportError(e) == FetchReturn(TransportFailure(e), Err(classify_error(e)))

FetchErrorStatus(status) ==
    /\ ~is_success(status)
    /\ FetchReturn(HttpStatus(status), Err(error_for_status(status)))

FetchParseError(status) ==
    /\ is_success(status)
    /\ FetchReturn(HttpStatus(status), Err(ParseError))

FetchSuccess(status, rates) ==
    /\ is_success(status)
    /\ FetchReturn(HttpBody(status), Ok(rates))

(***************************************************************************)
(* OctopusClient::fetch_paginated and fetch_page_with_retry, as called by  *)
(* fetch_agile_rates_historical.                                           *)
(***************************************************************************)

\* A GET of page_url by fetch_page_with_retry on behalf of fetch_paginated.
PageRequest(page_url) == [after |-> Len(fetched), url |-> page_url]

\* Entry of fetch_page_with_retry(page_url) and the first iteration of its
\* loop.
BeginPage(page_url) ==
    /\ requested' = requested \cup {PageRequest(page_url)}
    /\ retry_delay_ms' = INITIAL_DELAY_MS
    /\ max_attempts' = MAX_RETRY_ATTEMPTS
    /\ attempt' = 0
    /\ answers' = <<>>
    /\ waits' = <<>>
    /\ reqs' = 1
    /\ pc' = "page_await"

StartHistorical ==
    /\ pc = "idle"
    /\ op' = "historical"
    /\ all_rates' = <<>>
    /\ url' = Some(InitialUrl)
    /\ page' = 1
    /\ BeginPage(InitialUrl)
    /\ UNCHANGED <<result, fetched, links, failed, page_delays, rateVars, restVars>>

\* fetch_paginated's Err(e) arm, keeping the accumulated records whatever
\* they are.
PageErrKeepPartial(e) ==
    /\ failed' = Some(e)
    /\ IF page = 1 THEN Return(Err(e)) ELSE Return(Ok(all_rates))
    /\ UNCHANGED <<op, url, attempt, max_attempts, retry_delay_ms, all_rates, page,
                   reqs, waits, fetched, links, page_delays, requested, records, query, restVars>>

\* fetch_paginated's Err(e) arm without the is_empty check.
PageErrAlwaysOk(e) ==
    /\ failed' = Some(e)
    /\ Return(Ok(all_rates))
    /\ UNCHANGED <<op, url, attempt, max_attempts, retry_delay_ms, all_rates, page,
                   reqs, waits, fetched, links, page_delays, requested, records, query, restVars>>

\* fetch_paginated's Err(e) arm: the page fetch returned Err(e).
PageErr(e) ==
    /\ failed' = Some(e)
    /\ IF all_rates = <<>> THEN Return(Err(e)) ELSE Return(Ok(all_rates))
    /\ UNCHANGED <<op, url, attempt, max_attempts, retry_delay_ms, all_rates, page,
                   reqs, waits, fetched, links, page_delays, requested, records, query, restVars>>

\* fetch_paginated's Ok((rates, next)) arm with the new records put first.
PageOkPrepend(rates, next) ==
    /\ all_rates' = rates \o all_rates
    /\ url' = next
    /\ page' = page + 1
    /\ fetched' = Append(fetched, rates)
    /\ links' = Append(links, next)
    /\ IF next # None
       THEN pc' = "page_delay" /\ UNCHANGED <<result, data>>
       ELSE Return(Ok(rates \o all_rates))
    /\ UNCHANGED <<op, attempt, max_attempts, retry_delay_ms, reqs, waits, failed,
                   page_delays, requested, records, query, restVars>>

\* fetch_paginated's Ok((rates, next)) arm.
PageOk(rates, next) ==
    /\ all_rates' = all_rates \o rates
    /\ url' = next
    /\ page' = page + 1
    /\ fetched' = Append(fetched, rates)
    /\ links' = Append(links, next)
    /\ IF next # None
       THEN pc' = "page_delay" /\ UNCHANGED <<result, data>>
       ELSE Return(Ok(all_rates \o rates))
    /\ UNCHANGED <<op, attempt, max_attempts, retry_delay_ms, reqs, waits, failed,
                   page_delays, requested, records, query, restVars>>

PageTransportError(e) ==
    /\ pc = "page_await"
    /\ Answered(TransportFailure(e))
    /\ PageErr(classify_error(e))

\* The retry branch taken on the last allowed attempt too.
PageRateLimitedRetryLast(status) ==
    /\ pc = "page_await"
    /\ status = 429 /\ attempt < max_attempts
    /\ Answered(HttpStatus(status))
    /\ pc' = "page_backoff"
    /\ UNCHANGED <<op, url, attempt, max_attempts, retry_delay_ms, all_rates, page,
                   result, reqs, waits, fetched, links, failed, page_delays, requested, rateVars, restVars>>

\* A 429 answer while attempts remain: the backoff wait starts.
PageRateLimitedRetry(status) ==
    /\ pc = "page_await"
    /\ status = 429 /\ attempt < max_attempts - 1
    /\ Answered(HttpStatus(status))
    /\ pc' = "page_backoff"
    /\ UNCHANGED <<op, url, attempt, max_attempts, retry_delay_ms, all_rates, page,
                   result, reqs, waits, fetched, links, failed, page_delays, requested,
                   rateVars, restVars>>

PageErrorStatus(status) ==
    /\ pc = "page_await"
    /\ ~(status = 429 /\ attempt < max_attempts - 1)
    /\ ~is_success(status)
    /\ Answered(HttpStatus(status))
    /\ PageErr(error_for_status(status))

PageParseError(status) ==
    /\ pc = "page_await"
    /\ is_success(status)
    /\ Answered(HttpStatus(status))
    /\ PageErr(ParseError)

\* The chain of next links is finite: the page numbered MaxPages has none.
PageSuccess(status, rates, next) ==
    /\ pc = "page_await"
    /\ is_success(status)
    /\ next # None => page < MaxPages
    /\ Answered(HttpBody(status))
    /\ PageOk(rates, next)

\* The backoff wait followed by a fresh fetch_page_with_retry of the URL, its
\* attempts counted from 0 again.
PageBackoffStartsOver ==
    /\ pc = "page_backoff"
    /\ BeginPage(url[1])
    /\ UNCHANGED <<op, url, all_rates, page, result, fetched, links, failed,
                   page_delays, rateVars, restVars>>

\* The backoff wait is over: the delay is multiplied and the loop goes to
\* its next iteration, or ends when no attempt is left.
PageBackoffElapsed ==
    /\ pc = "page_backoff"
    /\ waits' = Append(waits, retry_delay_ms)
    /\ retry_delay_ms' = MulU32(retry_delay_ms, BACKOFF_MULTIPLIER)
    /\ attempt' = attempt + 1
    /\ IF attempt + 1 < max_attempts
       THEN /\ pc' = "page_await"
            /\ reqs' = reqs + 1
            /\ requested' = requested \cup {PageRequest(url[1])}
            /\ UNCHANGED <<result, failed, data>>
       ELSE /\ failed' = Some(RateLimited)
            /\ IF all_rates = <<>> THEN Return(Err(RateLimited)) ELSE Return(Ok(all_rates))
            /\ UNCHANGED <<reqs, requested>>
    /\ UNCHANGED <<op, url, max_attempts, all_rates, page, answers, fetched, links,
                   page_delays, records, query, restVars>>

\* The inter-page delay taken from the backoff delay of the page's retries.
PageDelayOfBackoffLength ==
    /\ pc = "page_delay"
    /\ page_delays' = Append(page_delays, retry_delay_ms)
    /\ BeginPage(url[1])
    /\ UNCHANGED <<op, url, all_rates, page, result, fetched, links, failed, rateVars, restVars>>

\* The inter-page delay is over: the while loop fetches the next page.
PageDelayElapsed ==
    /\ pc = "page_delay"
    /\ page_delays' = Append(page_delays, PAGINATION_DELAY_MS)
    /\ BeginPage(url[1])
    /\ UNCHANGED <<op, url, all_rates, page, result, fetched, links, failed, rateVars, restVars>>

(***************************************************************************)
(* retry_with_backoff (services/retry.rs), called by the carbon-intensity  *)
(* client with its request closure and MAX_RETRY_ATTEMPTS, and by any      *)
(* caller with an operation returning Result<T, AppError>.                 *)
(***************************************************************************)
AttemptArgs == 0..MAX_RETRY_ATTEMPTS

\* CarbonIntensityClient::error_for_status
carbon_error_for_status(status) ==
    IF status = 429 THEN RateLimited
    ELSE IF status >= 400 /\ status <= 499 THEN AppError("ApiError", "Client error", status)
    ELSE IF status >= 500 /\ status <= 599 THEN AppError("ApiError", "Server error", status)
    ELSE AppError("ApiError", "Unexpected status", status)

\* What the carbon upstream can answer: a transport failure or a status,
\* a body that parses or not, holding a period with actual data and a next
\* period or not.
CarbonResponses ==
    [transport : TransportErrors \cup {"none"}, status : Statuses,
     parses : BOOLEAN, has_actual : BOOLEAN, has_next : BOOLEAN]

\* The closure of fetch_current_and_next_intensity.
CarbonOperation(resp) ==
    IF resp.transport # "none" THEN Err(classify_error(resp.transport))
    ELSE IF ~is_success(resp.status) THEN Err(carbon_error_for_status(resp.status))
    ELSE IF ~resp.parses THEN Err(ParseError)
    ELSE IF ~resp.has_actual
         THEN Err(AppError("DataError", "No period with actual data found in response", 0))
    ELSE IF ~resp.has_next
         THEN Err(AppError("DataError", "No next period found in response", 0))
    ELSE Ok(<<>>)

AppErrors ==
    {RateLimited} \cup
    {AppError(k, "operation failed", 0) :
        k \in {"ApiError", "DataError", "ConfigError", "AuthError", "NotFound"}}

\* The results one invocation of the retried operation can give.
Outcomes(o) ==
    IF o = "carbon" THEN {CarbonOperation(resp) : resp \in CarbonResponses}
    ELSE {Ok(<<>>)} \cup {Err(e) : e \in AppErrors}

\* Entry of retry_with_backoff and the first iteration of its loop.
StartRetry(which, max) ==
    /\ pc = "idle"
    /\ op' = which
    /\ max_attempts' = max
    /\ retry_delay_ms' = INITIAL_DELAY_MS
    /\ attempt' = 1
    /\ IF 1 <= max
       THEN /\ pc' = "retry_await"
            /\ reqs' = 1
                    /\ UNCHANGED <<result, data>>
       ELSE /\ result' = Some(Err(RateLimited))
            /\ pc' = "done"
            /\ UNCHANGED <<reqs, data>>
    /\ UNCHANGED <<url, all_rates, page, answers, waits, fetched, links, failed,
                   page_delays, requested, records, query, restVars>>

StartCarbon          == StartRetry("carbon", MAX_RETRY_ATTEMPTS)
StartOperation(max)  == StartRetry("retry", max)

RetryReturn(r) ==
    /\ Answered(r)
    /\ Return(r)
    /\ UNCHANGED <<op, url, attempt, max_attempts, retry_delay_ms, all_rates, page,
                   reqs, waits, fetched, links, failed, page_delays, requested,
                   records, query, restVars>>

\* Ok(result) => return Ok(result)
RetryOk(r) ==
    /\ pc = "retry_await"
    /\ r.ok
    /\ RetryReturn(r)

\* The retry arm taken on every error.
RetryWaitOnAnyError(r) ==
    /\ pc = "retry_await"
    /\ ~r.ok /\ attempt < max_attempts
    /\ Answered(r)
    /\ pc' = "retry_backoff"
    /\ UNCHANGED <<op, url, attempt, max_attempts, retry_delay_ms, all_rates, page,
                   result, reqs, waits, fetched, links, failed, page_delays, requested, rateVars, restVars>>

\* The retry arm taken on the last attempt too.
RetryRateLimitedWaitLast(r) ==
    /\ pc = "retry_await"
    /\ ~r.ok /\ r.value = RateLimited /\ attempt <= max_attempts
    /\ Answered(r)
    /\ pc' = "retry_backoff"
    /\ UNCHANGED <<op, url, attempt, max_attempts, retry_delay_ms, all_rates, page,
                   result, reqs, waits, fetched, links, failed, page_delays, requested,
                   rateVars, restVars>>

\* Err(AppError::RateLimited) if attempt < max_attempts: the wait starts.
RetryRateLimitedWait(r) ==
    /\ pc = "retry_await"
    /\ ~r.ok /\ r.value = RateLimited /\ attempt < max_attempts
    /\ Answered(r)
    /\ pc' = "retry_backoff"
    /\ UNCHANGED <<op, url, attempt, max_attempts, retry_delay_ms, all_rates, page,
                   result, reqs, waits, fetched, links, failed, page_delays, requested,
                   rateVars, restVars>>

\* Err(e) => return Err(e)
RetryError(r) ==
    /\ pc = "retry_await"
    /\ ~r.ok /\ ~(r.value = RateLimited /\ attempt < max_attempts)
    /\ RetryReturn(r)

\* The wait is over: the delay is multiplied and the loop goes to its next
\* iteration, or ends when no attempt is left.
RetryBackoffElapsed ==
    /\ pc = "retry_backoff"
    /\ waits' = Append(waits, retry_delay_ms)
    /\ retry_delay_ms' = MulU32(retry_delay_ms, BACKOFF_MULTIPLIER)
    /\ attempt' = attempt + 1
    /\ IF attempt + 1 <= max_attempts
       THEN /\ pc' = "retry_await"
            /\ reqs' = reqs + 1
                    /\ UNCHANGED result
       ELSE /\ result' = Some(Err(RateLimited))
            /\ pc' = "done"
            /\ UNCHANGED reqs
    /\ UNCHANGED <<op, url, max_attempts, all_rates, page, answers, fetched, links, failed,
                   page_delays, requested, rateVars, restVars>>

Next ==
    \/ StartAgile
    \/ StartTracker
    \/ \E e \in TransportErrors : FetchTransportError(e)
    \/ \E status \in Statuses : FetchErrorStatus(status)
    \/ \E status \in Statuses : FetchParseError(status)
    \/ \E status \in Statuses, rates \in Payloads : FetchSuccess(status, rates)
    \/ StartHistorical
    \/ \E e \in TransportErrors : PageTransportError(e)
    \/ \E status \in Statuses : PageRateLimitedRetry(status)
    \/ \E status \in Statuses : PageErrorStatus(status)
    \/ \E status \in Statuses : PageParseError(status)
    \/ \E status \in Statuses, rates \in Payloads, next \in NextLinks :
          PageSuccess(status, rates, next)
    \/ PageBackoffElapsed
    \/ PageDelayElapsed
    \/ StartCarbon
    \/ \E max \in AttemptArgs : StartOperation(max)
    \/ \E r \in Outcomes(op) : RetryOk(r)
    \/ \E r \in Outcomes(op) : RetryRateLimitedWait(r)
    \/ \E r \in Outcomes(op) : RetryError(r)
    \/ RetryBackoffElapsed

Spec == Init /\ [][Next]_vars

\* Every request gets an answer and every timer runs out: the browser
\* resolves the future a task awaits.
PageAnswered ==
    \/ \E e \in TransportErrors : PageTransportError(e)
    \/ \E status \in Statuses : PageRateLimitedRetry(status)
    \/ \E status \in Statuses : PageErrorStatus(status)
    \/ \E status \in Statuses : PageParseError(status)
    \/ \E status \in Statuses, rates \in Payloads, next \in NextLinks :
          PageSuccess(status, rates, next)

SpecAnswered ==
    /\ Init
    /\ [][Next]_vars
    /\ WF_vars(PageAnswered)
    /\ WF_vars(PageBackoffElapsed)
    /\ WF_vars(PageDelayElapsed)

(***************************************************************************)
(* The two retry loops side by side: SpecReplay.  fetch_page_with_retry is *)
(* run for one page with any attempt count in place of                     *)
(* MAX_RETRY_ATTEMPTS; then what each of its attempts came to is given,    *)
(* attempt by attempt, to retry_with_backoff with the same count.          *)
(***************************************************************************)
\* fetch_paginated entering fetch_page_with_retry with max_retries = max: for
\* max = 0 the loop `for attempt in 0..max_retries` has no iteration and the
\* function ends in its last line.
StartPageWith(max) ==
    /\ pc = "idle"
    /\ script = None
    /\ op' = "historical"
    /\ all_rates' = <<>>
    /\ url' = Some(InitialUrl)
    /\ page' = 1
    /\ retry_delay_ms' = INITIAL_DELAY_MS
    /\ max_attempts' = max
    /\ attempt' = 0
    /\ answers' = <<>>
    /\ waits' = <<>>
    /\ IF 0 < max
       THEN /\ pc' = "page_await"
            /\ reqs' = 1
            /\ requested' = requested \cup {PageRequest(InitialUrl)}
            /\ UNCHANGED <<result, failed, data>>
       ELSE /\ failed' = Some(RateLimited)
            /\ Return(Err(RateLimited))
            /\ UNCHANGED <<reqs, requested>>
    /\ UNCHANGED <<fetched, links, page_delays, records, query, restVars>>

\* One iteration of fetch_page_with_retry's loop body seen as an operation
\* returning Result<(Vec<Rate>, Option<String>), AppError>.
AttemptResult(a) ==
    IF a.transport # "none" THEN Err(classify_error(a.transport))
    ELSE IF ~is_success(a.status) THEN Err(error_for_status(a.status))
    ELSE IF ~a.parses THEN Err(ParseError)
    ELSE Ok(<<fetched[1], links[1]>>)

\* What fetch_page_with_retry returned to fetch_paginated.
PageOutcome ==
    IF failed # None THEN Err(failed[1]) ELSE Ok(<<fetched[1], links[1]>>)

\* The finished call is kept and the client is idle again.
KeepScript ==
    /\ pc = "done"
    /\ op = "historical"
    /\ script = None
    /\ script' = Some([max_attempts |-> max_attempts,
                       results      |-> [i \in 1..Len(answers) |-> AttemptResult(answers[i])],
                       reqs         |-> reqs,
                       waits        |-> waits,
                       outcome      |-> PageOutcome])
    /\ op' = "none"
    /\ pc' = "idle"
    /\ url' = None
    /\ attempt' = 0
    /\ max_attempts' = 0
    /\ retry_delay_ms' = 0
    /\ all_rates' = <<>>
    /\ page' = 0
    /\ result' = None
    /\ reqs' = 0
    /\ answers' = <<>>
    /\ waits' = <<>>
    /\ fetched' = <<>>
    /\ links' = <<>>
    /\ requested' = {}
    /\ failed' = None
    /\ page_delays' = <<>>
    /\ data' = <<>>
    /\ UNCHANGED <<records, query, hookVars, resizeVars>>

\* retry_with_backoff(operation, max_attempts) with the kept attempt count.
StartScripted ==
    /\ script # None
    /\ StartOperation(script[1].max_attempts)

\* What the operation returns at its next invocation.
Scripted ==
    IF script # None /\ Len(answers) < Len(script[1].results)
    THEN {script[1].results[Len(answers) + 1]}
    ELSE {}

NextReplay ==
    \/ \E max \in AttemptArgs : StartPageWith(max)
    \/ \E e \in TransportErrors : PageTransportError(e)
    \/ \E status \in Statuses : PageRateLimitedRetry(status)
    \/ \E status \in Statuses : PageErrorStatus(status)
    \/ \E status \in Statuses : PageParseError(status)
    \/ \E status \in Statuses, rates \in Payloads : PageSuccess(status, rates, None)
    \/ PageBackoffElapsed
    \/ KeepScript
    \/ StartScripted
    \/ \E r \in Scripted : RetryOk(r)
    \/ \E r \in Scripted : RetryRateLimitedWait(r)
    \/ \E r \in Scripted : RetryError(r)
    \/ RetryBackoffElapsed

SpecReplay == Init /\ [][NextReplay]_vars

(***************************************************************************)
(* models/rates.rs: the date-aware queries.  Here an instant is a count of  *)
(* quarter hours since 00:00 UTC of day 0, and a date is a count of days.  *)
(***************************************************************************)
QuartersPerDay == 24 * 4

\* DateTime::date_naive, hour and minute; NaiveDate::and_time(00:00).and_utc()
date_naive(t)   == t \div QuartersPerDay
hour(t)         == (t % QuartersPerDay) \div 4
minute(t)       == (t % 4) * 15
StartOfDay(date) == date * QuartersPerDay
DurationDays(n) == n * QuartersPerDay

\* filter_for_date with the end of the day included.
filter_for_date_inclusive_end(d, date) ==
    LET start_of_day == StartOfDay(date)
        end_of_day   == start_of_day + DurationDays(1)
        keep(r)      == r.valid_from >= start_of_day /\ r.valid_from <= end_of_day
    IN  SelectSeq(d, keep)

filter_for_date(d, date) ==
    LET start_of_day == StartOfDay(date)
        end_of_day   == start_of_day + DurationDays(1)
        keep(r)      == r.valid_from >= start_of_day /\ r.valid_from < end_of_day
    IN  SelectSeq(d, keep)

has_data_for_date(d, date) == filter_for_date(d, date) # <<>>

DayStats(rates) ==
    LET min == FoldMin(rates, None)[1]
        max == FoldMax(rates, None)[1]
    IN  [min         |-> min,
         max         |-> max,
         avg         |-> F64DivInt(FoldSum(rates, F64Zero), Len(rates)),
         price_range |-> <<min, max>>,
         rate_count  |-> Len(rates)]

\* stats_for_date computing over the whole index once the date has data.
stats_for_date_whole_index(d, date) ==
    LET filtered_rates == filter_for_date(d, date)
    IN  IF filtered_rates = <<>> THEN None ELSE Some(DayStats(d))

stats_for_date(d, date) ==
    LET filtered_rates == filter_for_date(d, date)
    IN  IF filtered_rates = <<>> THEN None ELSE Some(DayStats(filtered_rates))

\* daily_stats failing when tomorrow has no data either.
daily_stats_requires_tomorrow(d, now1, now2, now3) ==
    LET today          == date_naive(now1)
        tomorrow       == today + 1
        today_stats    == stats_for_date(d, today)
        tomorrow_stats == stats_for_date(d, tomorrow)
    IN  IF today_stats = None \/ tomorrow_stats = None
        THEN Err(AppError("DataError", "No data for today", 0))
        ELSE Ok([today    |-> today_stats[1],
                 tomorrow |-> tomorrow_stats,
                 current  |-> PriceOrZero(rate_at(d, now2)),
                 next     |-> PriceOrZero(next_rate(d, now3))])

\* daily_stats reads the clock three times: now1 for today's date, now2 for
\* the current rate, now3 for the next rate.
daily_stats(d, now1, now2, now3) ==
    LET today          == date_naive(now1)
        tomorrow       == today + 1
        today_stats    == stats_for_date(d, today)
        tomorrow_stats == stats_for_date(d, tomorrow)
    IN  IF today_stats = None
        THEN Err(AppError("DataError", "No data for today", 0))
        ELSE Ok([today    |-> today_stats[1],
                 tomorrow |-> tomorrow_stats,
                 current  |-> PriceOrZero(rate_at(d, now2)),
                 next     |-> PriceOrZero(next_rate(d, now3))])

HalfHourSlots == 48

\* The slot of an instant with the minute left out.
slot_of_hour_only(t) == hour(t) * 2

slot_of(t) == hour(t) * 2 + minute(t) \div 30

\* The HashMap<usize, Vec<f64>> is a function on the slots seen so far.
RECURSIVE GroupSlots(_, _)
GroupSlots(d, slots) ==
    IF d = <<>> THEN slots
    ELSE LET slot == slot_of(Head(d).valid_from)
             val  == Head(d).value_inc_vat
         IN  GroupSlots(Tail(d),
                 IF slot \in DOMAIN slots
                 THEN [slots EXCEPT ![slot] = Append(@, val)]
                 ELSE slots @@ (slot :> <<val>>))

\* The Vec of 48 buckets; bucket k is element k + 1.
grouped_by_half_hour_slot(d) ==
    LET slots == GroupSlots(d, <<>>)
    IN  [i \in 1..HalfHourSlots |->
            IF (i - 1) \in DOMAIN slots /\ (i - 1) < HalfHourSlots
            THEN slots[i - 1] ELSE <<>>]

(***************************************************************************)
(* The date-aware queries on a bounded index: SpecDays.                     *)
(***************************************************************************)
\* Intervals start on two consecutive dates; the date after them has none.
Dates      == {0, 1}
QueryDates == Dates \cup { date + 1 : date \in Dates }
DayOffsets == {0, 3, QuartersPerDay - 2}

\* Half-hour intervals starting at 00:00, 00:45 and 23:30 of each date.
DayRate == { [valid_from |-> StartOfDay(date) + o,
              valid_to   |-> StartOfDay(date) + o + 2,
              value_inc_vat |-> p] : date \in Dates, o \in DayOffsets, p \in Prices }

\* The clock at the first and the last quarter hour of each date.
DayClock == { StartOfDay(date) + o : date \in Dates, o \in {0, QuartersPerDay - 1} }

InitDays ==
    /\ records \in SeqsUpTo(DayRate, MaxDayRecords)
    /\ data = RatesNew(records)
    /\ query = NoQuery
    /\ InitClientIdle
    /\ InitHookIdle
    /\ InitResizeIdle

QueryFilterForDate(date) ==
    /\ query' = [fn |-> "filter_for_date", date |-> date,
                 out |-> filter_for_date(data, date)]
    /\ UNCHANGED <<records, data, fetchVars, histVars, restVars>>

QueryStatsForDate(date) ==
    /\ query' = [fn |-> "stats_for_date", date |-> date,
                 has_data |-> has_data_for_date(data, date),
                 out |-> stats_for_date(data, date)]
    /\ UNCHANGED <<records, data, fetchVars, histVars, restVars>>

\* The clock does not go back between the three reads.
QueryDailyStats(now1, now2, now3) ==
    /\ now1 <= now2 /\ now2 <= now3
    /\ query' = [fn |-> "daily_stats", now |-> <<now1, now2, now3>>,
                 out |-> daily_stats(data, now1, now2, now3)]
    /\ UNCHANGED <<records, data, fetchVars, histVars, restVars>>

QueryGroupedByHalfHourSlot ==
    /\ query' = [fn |-> "grouped_by_half_hour_slot",
                 out |-> grouped_by_half_hour_slot(data)]
    /\ UNCHANGED <<records, data, fetchVars, histVars, restVars>>

NextDays ==
    \/ \E date \in QueryDates : QueryFilterForDate(date)
    \/ \E date \in QueryDates : QueryStatsForDate(date)
    \/ \E now1 \in DayClock : \E now2 \in {now1, now1 + 1} : \E now3 \in {now2, now2 + 1} :
          QueryDailyStats(now1, now2, now3)
    \/ QueryGroupedByHalfHourSlot

SpecDays == InitDays /\ [][NextDays]_vars

(***************************************************************************)
(* components/cheapest_period.rs: the cheapest period of the next three     *)
(* hours, on instants counted in quarter hours.                            *)
(***************************************************************************)
DurationMinutes30 == 2
DurationHours(n)  == n * 4

\* now.duration_trunc(Duration::minutes(30))
duration_trunc(t, d) == t - (t % d)

filter_from(d, from) ==
    LET keep(r) == r.valid_from >= from
    IN  SelectSeq(d, keep)

\* take_while(|r| r.valid_from < limit): stops at the first failure.
RECURSIVE take_while_before(_, _)
take_while_before(s, limit) ==
    IF s = <<>> \/ ~(Head(s).valid_from < limit) THEN <<>>
    ELSE <<Head(s)>> \o take_while_before(Tail(s), limit)

\* min_by keeping the later of two equally priced intervals.
RECURSIVE min_by_last(_, _)
min_by_last(s, acc) ==
    IF s = <<>> THEN acc
    ELSE min_by_last(Tail(s),
             IF acc = None \/ acc[1].value_inc_vat >= Head(s).value_inc_vat
             THEN Some(Head(s)) ELSE acc)

\* Iterator::min_by on value_inc_vat: the accumulator gives way only to a
\* strictly smaller element, so the first of equal minima is returned.
RECURSIVE min_by(_, _)
min_by(s, acc) ==
    IF s = <<>> THEN acc
    ELSE min_by(Tail(s),
             IF acc = None \/ acc[1].value_inc_vat > Head(s).value_inc_vat
             THEN Some(Head(s)) ELSE acc)

\* The scan starting at now instead of the start of the current half hour.
cheapest_scan_from_now(d, now) ==
    LET three_hours_later == now + DurationHours(3)
    IN  take_while_before(filter_from(d, now), three_hours_later)

\* The intervals the iterator chain hands to min_by.
cheapest_scan(d, now) ==
    LET window_start      == duration_trunc(now, DurationMinutes30)
        three_hours_later == now + DurationHours(3)
    IN  take_while_before(filter_from(d, window_start), three_hours_later)

cheapest(d, now) == min_by(cheapest_scan(d, now), None)

\* rate.valid_from.with_timezone(&Local).format("%H:%M")
format_local_hh_mm(t, utc_offset) == <<hour(t + utc_offset), minute(t + utc_offset)>>

cheapest_time(d, now, utc_offset) ==
    LET c == cheapest(d, now)
    IN  IF c = None THEN None ELSE Some(format_local_hh_mm(c[1].valid_from, utc_offset))

(***************************************************************************)
(* The cheapest period on a bounded index: SpecWindow.                      *)
(***************************************************************************)
\* Half-hour intervals at 00:00, 00:30, 03:00 and 03:30.
WindowRate == { [valid_from |-> t, valid_to |-> t + 2, value_inc_vat |-> p] :
                  t \in {0, 2, 12, 14}, p \in Prices }

\* The clock between 00:00 and 00:45; the local zone is UTC or UTC+1.
WindowClock == 0..3
UtcOffsets  == {0, 4}

InitWindow ==
    /\ records \in SeqsUpTo(WindowRate, MaxRecords)
    /\ data = RatesNew(records)
    /\ query = NoQuery
    /\ InitClientIdle
    /\ InitHookIdle
    /\ InitResizeIdle

QueryCheapestPeriod(now, utc_offset) ==
    /\ query' = [fn |-> "cheapest_period", now |-> now, utc_offset |-> utc_offset,
                 scan |-> cheapest_scan(data, now),
                 cheapest |-> cheapest(data, now),
                 out |-> cheapest_time(data, now, utc_offset)]
    /\ UNCHANGED <<records, data, fetchVars, histVars, restVars>>

NextWindow ==
    \E now \in WindowClock : \E utc_offset \in UtcOffsets : QueryCheapestPeriod(now, utc_offset)

SpecWindow == InitWindow /\ [][NextWindow]_vars

(***************************************************************************)
(* services/api.rs: Region and the request periods of ApiConfig.  A string  *)
(* is a sequence of characters; an instant is a count of quarter hours.    *)
(***************************************************************************)
Region ==
    {
      "Region::A", "Region::B", "Region::C", "Region::D", "Region::E",
      "Region::F", "Region::G", "Region::H", "Region::J", "Region::K",
      "Region::L", "Region::M", "Region::N", "Region::P" }

\* Region::code
code(r) ==
    CASE r = "Region::A" -> <<"A">>
      [] r = "Region::B" -> <<"B">>
      [] r = "Region::C" -> <<"C">>
      [] r = "Region::D" -> <<"D">>
      [] r = "Region::E" -> <<"E">>
      [] r = "Region::F" -> <<"F">>
      [] r = "Region::G" -> <<"G">>
      [] r = "Region::H" -> <<"H">>
      [] r = "Region::J" -> <<"J">>
      [] r = "Region::K" -> <<"K">>
      [] r = "Region::L" -> <<"L">>
      [] r = "Region::M" -> <<"M">>
      [] r = "Region::N" -> <<"N">>
      [] r = "Region::P" -> <<"P">>

\* Lower-case letters with their upper-case forms.
LowerUpper ==
    {
      <<"a", "A">>, <<"b", "B">>, <<"c", "C">>, <<"d", "D">>, <<"e", "E">>,
      <<"f", "F">>, <<"g", "G">>, <<"h", "H">>, <<"j", "J">>, <<"k", "K">>,
      <<"l", "L">>, <<"m", "M">>, <<"n", "N">>, <<"p", "P">>, <<"i", "I">>,
      <<"o", "O">>, <<"x", "X">> }

\* char::to_uppercase: one character to a string.  The dotless i has I as
\* its upper-case form and the sharp s has SS.
char_to_uppercase(c) ==
    IF \E p \in LowerUpper : p[1] = c
    THEN <<(CHOOSE p \in LowerUpper : p[1] = c)[2]>>
    ELSE IF c = "dotless i" THEN <<"I">>
    ELSE IF c = "sharp s" THEN <<"S", "S">>
    ELSE <<c>>

\* str::to_uppercase
RECURSIVE to_uppercase(_)
to_uppercase(s) ==
    IF s = <<>> THEN <<>> ELSE char_to_uppercase(Head(s)) \o to_uppercase(Tail(s))

\* from_str matching s itself, without to_uppercase.
from_str_case_sensitive(s) ==
    CASE s = <<"A">> -> Ok("Region::A")
      [] s = <<"B">> -> Ok("Region::B")
      [] s = <<"C">> -> Ok("Region::C")
      [] s = <<"D">> -> Ok("Region::D")
      [] s = <<"E">> -> Ok("Region::E")
      [] s = <<"F">> -> Ok("Region::F")
      [] s = <<"G">> -> Ok("Region::G")
      [] s = <<"H">> -> Ok("Region::H")
      [] s = <<"J">> -> Ok("Region::J")
      [] s = <<"K">> -> Ok("Region::K")
      [] s = <<"L">> -> Ok("Region::L")
      [] s = <<"M">> -> Ok("Region::M")
      [] s = <<"N">> -> Ok("Region::N")
      [] s = <<"P">> -> Ok("Region::P")
      [] OTHER -> Err(AppError("ConfigError", "Invalid region code", 0))

\* impl FromStr for Region
from_str(s) ==
    LET u == to_uppercase(s)
    IN
        CASE u = <<"A">> -> Ok("Region::A")
          [] u = <<"B">> -> Ok("Region::B")
          [] u = <<"C">> -> Ok("Region::C")
          [] u = <<"D">> -> Ok("Region::D")
          [] u = <<"E">> -> Ok("Region::E")
          [] u = <<"F">> -> Ok("Region::F")
          [] u = <<"G">> -> Ok("Region::G")
          [] u = <<"H">> -> Ok("Region::H")
          [] u = <<"J">> -> Ok("Region::J")
          [] u = <<"K">> -> Ok("Region::K")
          [] u = <<"L">> -> Ok("Region::L")
          [] u = <<"M">> -> Ok("Region::M")
          [] u = <<"N">> -> Ok("Region::N")
          [] u = <<"P">> -> Ok("Region::P")
          [] OTHER -> Err(AppError("ConfigError", "Invalid region code", 0))

\* calculate_period starting at now instead of midnight.
calculate_period_from_now(now) ==
    LET start == now
        end   == start + DurationDays(2)
    IN  <<start, end>>

calculate_period(now) ==
    LET start == StartOfDay(date_naive(now))
        end   == start + DurationDays(2)
    IN  <<start, end>>

calculate_historical_period(now, n_days) ==
    LET end   == StartOfDay(date_naive(now))
        start == end - DurationDays(n_days)
    IN  <<start, end>>

(***************************************************************************)
(* Region parsing and the request periods on bounded inputs: SpecConfig.    *)
(* A behaviour is one call: Init draws the call and its arguments, the     *)
(* action returns its result.                                              *)
(***************************************************************************)
Chars ==
    { p[1] : p \in LowerUpper } \cup { p[2] : p \in LowerUpper }
        \cup {" ", "1", "dotless i", "sharp s"}

Strings == SeqsUpTo(Chars, MaxStrLen)

\* The clock at the first, second and last quarter hour of two dates.
ConfigClock == { StartOfDay(date) + o : date \in {0, 1}, o \in {0, 1, QuartersPerDay - 1} }

\* Days of history asked for; the application asks for 365.
NDays == {0, 1, 2, 365}

InitConfig ==
    /\ records = <<>>
    /\ data = <<>>
    /\ \/ \E s \in Strings : query = [fn |-> "call from_str", s |-> s]
       \/ \E now \in ConfigClock : query = [fn |-> "call agile_url", now |-> now]
       \/ \E now \in ConfigClock : \E n_days \in NDays :
             query = [fn |-> "call agile_url_historical", now |-> now, n_days |-> n_days]
    /\ InitClientIdle
    /\ InitHookIdle
    /\ InitResizeIdle

ReturnFromStr ==
    /\ query.fn = "call from_str"
    /\ query' = [fn |-> "from_str", s |-> query.s, out |-> from_str(query.s)]
    /\ UNCHANGED <<records, data, fetchVars, histVars, restVars>>

ReturnAgileUrl ==
    /\ query.fn = "call agile_url"
    /\ query' = [fn |-> "agile_url", now |-> query.now,
                 out |-> calculate_period(query.now)]
    /\ UNCHANGED <<records, data, fetchVars, histVars, restVars>>

ReturnAgileUrlHistorical ==
    /\ query.fn = "call agile_url_historical"
    /\ query' = [fn |-> "agile_url_historical", now |-> query.now,
                 n_days |-> query.n_days,
                 out |-> calculate_historical_period(query.now, query.n_days)]
    /\ UNCHANGED <<records, data, fetchVars, histVars, restVars>>

NextConfig ==
    \/ ReturnFromStr
    \/ ReturnAgileUrl
    \/ ReturnAgileUrlHistorical

SpecConfig == InitConfig /\ [][NextConfig]_vars

(***************************************************************************)
(* hooks/use_rates.rs, use_tracker.rs, use_historical_rates.rs and          *)
(* use_carbon.rs: a component using one polling hook.  The render that     *)
(* follows a change of the region prop or of the trigger runs the effect:  *)
(* the cleanup of the previous run, then the body.  The spawned task runs  *)
(* between its awaits without interruption (one thread).                   *)
(***************************************************************************)
ENABLE_AUTO_REFRESH == TRUE

RegionHooks == {"use_rates", "use_tracker_rates"}
Hooks       == RegionHooks \cup {"use_historical_rates", "use_carbon_intensity"}

\* The regions the prop takes: the default and one other.
HookRegions == {"Region::C", "Region::M"}

Loading          == [tag |-> "Loading", region |-> "none", task |-> 0]
Loaded(r, task)  == [tag |-> "Loaded",  region |-> r, task |-> task]
Error(r, task)   == [tag |-> "Error",   region |-> r, task |-> task]

\* The dependencies of use_effect_with at the current render.
Deps == IF hook \in RegionHooks THEN <<trigger, region>> ELSE <<trigger>>

\* One test of the aborted flag by a task, and whether the write it guards
\* was made.
Check(task, what, written) ==
    [task |-> task, what |-> what, aborted |-> tasks[task].aborted, written |-> written]

\* move || aborted.set(true), of the effect run that is current.
Cleanup(ts) ==
    IF ts = <<>> THEN ts ELSE [ts EXCEPT ![Len(ts)].aborted = TRUE]

InitHook ==
    /\ records = <<>>
    /\ data = <<>>
    /\ query = NoQuery
    /\ InitClientIdle
    /\ InitResizeIdle
    /\ hook \in Hooks
    /\ mounted = TRUE
    /\ region \in (IF hook \in RegionHooks THEN HookRegions ELSE {"none"})
    /\ trigger = 0
    /\ deps = None
    /\ state = Loading
    /\ tasks = <<>>
    /\ checks = {}

\* The parent renders the component with another region.
ChangeRegion(r) ==
    /\ mounted
    /\ hook \in RegionHooks
    /\ r # region
    /\ region' = r
    /\ UNCHANGED <<hook, mounted, trigger, deps, state, tasks, checks>>
    /\ UNCHANGED <<rateVars, fetchVars, histVars, resizeVars, scriptVars>>

\* use_effect_with: the dependencies differ from those of the last run (or
\* there was none).  The previous run's cleanup sets its aborted flag; the
\* body resets the state (use_rates and use_tracker_rates only) and spawns
\* the task.
RunEffect ==
    /\ mounted
    /\ deps # Some(Deps)
    /\ Len(tasks) < MaxEffectRuns
    /\ deps' = Some(Deps)
    /\ state' = IF hook \in RegionHooks THEN Loading ELSE state
    /\ tasks' = Append(Cleanup(tasks),
                       [region |-> region, trigger |-> trigger,
                        aborted |-> FALSE, pc |-> "fetch"])
    /\ UNCHANGED <<hook, mounted, region, trigger, checks>>
    /\ UNCHANGED <<rateVars, fetchVars, histVars, resizeVars, scriptVars>>

\* The task's fetch returned and the result is set without a look at the
\* aborted flag.
FetchCompletedUnchecked(i, ok) ==
    /\ tasks[i].pc = "fetch"
    /\ state' = IF ok THEN Loaded(tasks[i].region, i) ELSE Error(tasks[i].region, i)
    /\ checks' = checks \cup {Check(i, "state", TRUE)}
    /\ tasks' = [tasks EXCEPT ![i].pc =
                    IF ENABLE_AUTO_REFRESH /\ ~tasks[i].aborted THEN "sleep" ELSE "done"]
    /\ UNCHANGED <<hook, mounted, region, trigger, deps>>
    /\ UNCHANGED <<rateVars, fetchVars, histVars, resizeVars, scriptVars>>

\* The task's fetch returned: the result is set unless aborted, and the
\* polling timer is started unless aborted.
FetchCompleted(i, ok) ==
    /\ tasks[i].pc = "fetch"
    /\ state' = IF tasks[i].aborted THEN state
                ELSE IF ok THEN Loaded(tasks[i].region, i) ELSE Error(tasks[i].region, i)
    /\ checks' = checks \cup {Check(i, "state", ~tasks[i].aborted)}
    /\ tasks' = [tasks EXCEPT ![i].pc =
                    IF ENABLE_AUTO_REFRESH /\ ~tasks[i].aborted THEN "sleep" ELSE "done"]
    /\ UNCHANGED <<hook, mounted, region, trigger, deps>>
    /\ UNCHANGED <<rateVars, fetchVars, histVars, resizeVars, scriptVars>>

\* The polling interval is over: trigger.set(*trigger + 1) unless aborted;
\* *trigger is the value of the render the effect ran in.
PollTimerElapsed(i) ==
    /\ tasks[i].pc = "sleep"
    /\ trigger' = IF tasks[i].aborted THEN trigger ELSE tasks[i].trigger + 1
    /\ checks' = checks \cup {Check(i, "trigger", ~tasks[i].aborted)}
    /\ tasks' = [tasks EXCEPT ![i].pc = "done"]
    /\ UNCHANGED <<hook, mounted, region, deps, state>>
    /\ UNCHANGED <<rateVars, fetchVars, histVars, resizeVars, scriptVars>>

\* The component is torn down: the cleanup of the current effect run runs.
Unmount ==
    /\ mounted
    /\ mounted' = FALSE
    /\ tasks' = Cleanup(tasks)
    /\ UNCHANGED <<hook, region, trigger, deps, state, checks>>
    /\ UNCHANGED <<rateVars, fetchVars, histVars, resizeVars, scriptVars>>

NextHook ==
    \/ \E r \in HookRegions : ChangeRegion(r)
    \/ RunEffect
    \/ \E i \in 1..Len(tasks) : \E ok \in BOOLEAN : FetchCompleted(i, ok)
    \/ \E i \in 1..Len(tasks) : PollTimerElapsed(i)
    \/ Unmount

SpecHook == InitHook /\ [][NextHook]_vars

(***************************************************************************)
(* utils/debounce.rs: create_debounced_resize_listener(callback, delay_ms), *)
(* as chart.rs keeps it alive until its effect is cleaned up.  The browser *)
(* runs a Timeout at or after its due time unless it was dropped before.   *)
(***************************************************************************)
delay_ms == 150

\* The clock is in milliseconds and advances in steps of TickMs.
MaxClock == MaxTicks * TickMs

Timer(id, due) == [id |-> id, due |-> due]

\* drop(handle): clearTimeout, which does nothing to a timeout that has run.
Cancel(handle) ==
    IF handle = None THEN timers ELSE { t \in timers : t.id # handle[1] }

InitResize ==
    /\ records = <<>>
    /\ data = <<>>
    /\ query = NoQuery
    /\ InitClientIdle
    /\ InitHookIdle
    /\ listening = TRUE
    /\ clock = 0
    /\ timeout_handle = None
    /\ timers = {}
    /\ next_timer = 1
    /\ resized = <<>>
    /\ runs = <<>>

\* The resize closure scheduling a new timeout without dropping the old one.
ResizeEventNoCancel ==
    /\ listening
    /\ Len(resized) < MaxResizes
    /\ clock + delay_ms <= MaxClock
    /\ timers' = timers \cup {Timer(next_timer, clock + delay_ms)}
    /\ timeout_handle' = Some(next_timer)
    /\ next_timer' = next_timer + 1
    /\ resized' = Append(resized, clock)
    /\ UNCHANGED <<listening, clock, runs>>
    /\ UNCHANGED <<rateVars, fetchVars, histVars, hookVars, scriptVars>>

\* A resize event: the closure takes and drops the held timeout and schedules
\* a new one.  The clock bound leaves room for the delay of the last event.
ResizeEvent ==
    /\ listening
    /\ Len(resized) < MaxResizes
    /\ clock + delay_ms <= MaxClock
    /\ timers' = Cancel(timeout_handle) \cup {Timer(next_timer, clock + delay_ms)}
    /\ timeout_handle' = Some(next_timer)
    /\ next_timer' = next_timer + 1
    /\ resized' = Append(resized, clock)
    /\ UNCHANGED <<listening, clock, runs>>
    /\ UNCHANGED <<rateVars, fetchVars, histVars, hookVars, scriptVars>>

\* A pending timeout runs cb(); its handle stays where it is held.
TimeoutElapsed(t) ==
    /\ t \in timers
    /\ clock >= t.due
    /\ timers' = timers \ {t}
    /\ runs' = Append(runs, [at |-> clock, after |-> Len(resized)])
    /\ UNCHANGED <<listening, clock, timeout_handle, next_timer, resized>>
    /\ UNCHANGED <<rateVars, fetchVars, histVars, hookVars, scriptVars>>

Tick ==
    /\ clock + TickMs <= MaxClock
    /\ clock' = clock + TickMs
    /\ UNCHANGED <<listening, timeout_handle, timers, next_timer, resized, runs>>
    /\ UNCHANGED <<rateVars, fetchVars, histVars, hookVars, scriptVars>>

\* drop(listener): the closure goes, and with it the timeout it holds.
DropListener ==
    /\ listening
    /\ listening' = FALSE
    /\ timers' = Cancel(timeout_handle)
    /\ timeout_handle' = None
    /\ UNCHANGED <<clock, next_timer, resized, runs>>
    /\ UNCHANGED <<rateVars, fetchVars, histVars, hookVars, scriptVars>>

NextResize ==
    \/ ResizeEvent
    \/ \E t \in timers : TimeoutElapsed(t)
    \/ Tick
    \/ DropListener

\* Time passes and the browser runs a timeout that is due.
SpecResize ==
    /\ InitResize
    /\ [][NextResize]_vars
    /\ WF_vars(Tick)
    /\ WF_vars(\E t \in timers : TimeoutElapsed(t))

(***************************************************************************)
(* Properties of the index queries (checked under SpecRates).              *)
(***************************************************************************)

\* C1: on an index built from pairwise non-overlapping intervals, rate_at(t)
\* is the one interval with valid_from <= t < valid_to when there is one and
\* None otherwise; the interval returned has never expired at t.
C1_RateAtCovers ==
    (query.fn = "rate_at" /\ NonOverlapping(records)) =>
        LET covering == Covering(records, query.time)
        IN  /\ covering = {} => query.out = None
            /\ covering # {} => (query.out # None /\ covering = {query.out[1]})
            /\ query.out # None => query.out[1].valid_to > query.time

\* C1 witness: rate_at asked inside a gap between two intervals of an index
\* whose input was not in order, and answering None.
C1_Witness ==
    /\ query.fn = "rate_at"
    /\ NonOverlapping(records)
    /\ records # data
    /\ \E i, j \in 1..Len(records) :
          /\ records[i].valid_to <= query.time
          /\ query.time < records[j].valid_from
    /\ query.out = None

\* What C2 says of next_rate, for the input records recs.
NextRateAsClaimed(recs) ==
    LET c == rate_at(data, query.time)
    IN  IF c = None THEN query.out = None
        ELSE LET starting == {recs[i] : i \in {k \in 1..Len(recs) :
                                 recs[k].valid_from = c[1].valid_to}}
             IN  IF starting = {} THEN query.out = None
                 ELSE query.out # None /\ query.out[1] \in starting

\* C2 (as stated): for every index and every t, next_rate(t) is None when
\* rate_at(t) is None, otherwise the interval starting at rate_at(t).valid_to,
\* and None when no interval starts there.
C2_NextRateEveryIndex ==
    query.fn = "next_rate" => NextRateAsClaimed(records)

\* C2 (amended): the same, for every index built from pairwise
\* non-overlapping intervals.
C2_NextRateNonOverlapping ==
    (query.fn = "next_rate" /\ NonOverlapping(records)) => NextRateAsClaimed(records)

\* C2 witness: the current interval is followed by a gap and a later
\* interval, and next_rate answers None.
C2_Witness ==
    /\ query.fn = "next_rate"
    /\ NonOverlapping(records)
    /\ rate_at(data, query.time) # None
    /\ \E i \in 1..Len(records) :
          records[i].valid_from > rate_at(data, query.time)[1].valid_to
    /\ query.out = None

\* C10: stats_at(t) is DataError exactly when the index is empty; on a
\* non-empty index it is Ok for every t, with current the price of rate_at(t)
\* or 0.0 when that is None, and next the price of next_rate(t) or 0.0.
C10_StatsAt ==
    query.fn = "stats_at" =>
        LET c == rate_at(data, query.time)
            n == next_rate(data, query.time)
        IN  /\ Len(records) = 0 => (~query.out.ok /\ query.out.value.kind = "DataError")
            /\ Len(records) > 0 =>
                  /\ query.out.ok
                  /\ query.out.value.current = (IF c = None THEN 0 ELSE c[1].value_inc_vat)
                  /\ query.out.value.next = (IF n = None THEN 0 ELSE n[1].value_inc_vat)

\* C10 witness: stats_at on a non-empty index at an instant no interval
\* covers, answering Ok with current and next both 0.0.
C10_Witness ==
    /\ query.fn = "stats_at"
    /\ Len(records) > 0
    /\ rate_at(data, query.time) = None
    /\ query.out.ok
    /\ query.out.value.current = 0
    /\ query.out.value.next = 0


(***************************************************************************)
(* Properties of the client task (checked under Spec).                     *)
(***************************************************************************)
RECURSIVE Concat(_)
Concat(ss) == IF ss = <<>> THEN <<>> ELSE Head(ss) \o Concat(Tail(ss))

RECURSIVE Pow(_, _)
Pow(b, n) == IF n = 0 THEN 1 ELSE b * Pow(b, n - 1)

Last(s) == s[Len(s)]

\* A paginated fetch has ended because the fetch of its current page failed.
PageFailed == op = "historical" /\ pc = "done" /\ failed # None

\* C3 (as stated): when page k >= 2 fails after pages 1..k-1 succeeded,
\* fetch_paginated returns Ok with the concatenation of the records of pages
\* 1..k-1, whatever records those pages carried.
C3_PartialAlwaysOk ==
    (PageFailed /\ Len(fetched) >= 1) => result = Some(Ok(Concat(fetched)))

\* C3 (amended): when page k >= 2 fails after pages 1..k-1 succeeded,
\* fetch_paginated returns Ok with the concatenation of the records of pages
\* 1..k-1 if those pages carried at least one record, and Err with the error
\* of page k if they carried none.
C3_PartialOkWhenRecords ==
    (PageFailed /\ Len(fetched) >= 1) =>
        IF Concat(fetched) # <<>>
        THEN result = Some(Ok(Concat(fetched)))
        ELSE result = Some(Err(failed[1]))

\* C3 witness: the third page fails after two pages with records, and the
\* records of both are returned.
C3_Witness ==
    /\ PageFailed
    /\ Len(fetched) = 2
    /\ fetched[1] # <<>> /\ fetched[2] # <<>>
    /\ result = Some(Ok(fetched[1] \o fetched[2]))

\* C4: when the first page fails, fetch_paginated returns Err carrying the
\* error of that page, never Ok.
C4_FirstPageErr ==
    (PageFailed /\ fetched = <<>>) => result = Some(Err(failed[1]))

\* C4 witness: the first page is answered 429 until its retries are used up.
C4_Witness ==
    /\ PageFailed
    /\ fetched = <<>>
    /\ reqs = MAX_RETRY_ATTEMPTS
    /\ result = Some(Err(RateLimited))

\* The error kind the claim C5 gives for an answer.
KindAsClaimed(a) ==
    IF a.transport # "none" THEN "ApiError"
    ELSE IF a.status \in {401, 403} THEN "AuthError"
    ELSE IF a.status = 404 THEN "NotFound"
    ELSE "ApiError"

\* C5: in fetch_page_with_retry an answer with an error status other than
\* 429, or a transport failure, ends the page fetch at once: no request and
\* no wait follows it, and the error returned is AuthError for 401 and 403,
\* NotFound for 404, ApiError for every other 4xx/5xx and for a transport
\* failure.
C5_ErrorStatusEndsPage ==
    (op = "historical" /\ answers # <<>>) =>
        LET a == Last(answers)
        IN  (a.transport # "none" \/ (a.status >= 400 /\ a.status <= 599 /\ a.status # 429)) =>
               /\ pc = "done"
               /\ failed # None
               /\ failed[1].kind = KindAsClaimed(a)
               /\ reqs = Len(answers)
               /\ Len(waits) = Len(answers) - 1

\* C5 witness: a 403 answer to the third request for a page.
C5_Witness ==
    /\ op = "historical"
    /\ Len(answers) = 3
    /\ Last(answers).status = 403
    /\ failed # None /\ failed[1].kind = "AuthError"

\* C6: fetch_page_with_retry sends at most MAX_RETRY_ATTEMPTS requests for
\* one page; a request is repeated only after a 429 answer; and when all
\* MAX_RETRY_ATTEMPTS requests were answered 429 it has returned RateLimited.
C6_PageRequestsBounded ==
    op = "historical" =>
        /\ reqs <= MAX_RETRY_ATTEMPTS
        /\ Len(answers) <= reqs
        /\ \A i \in 1..Len(answers) : i < reqs => answers[i].status = 429
        /\ (\A i \in 1..Len(answers) : answers[i].status = 429) =>
              IF Len(answers) = MAX_RETRY_ATTEMPTS
              THEN pc = "done" /\ failed = Some(RateLimited)
              ELSE pc # "done"

\* C6 witness: ten requests for one page, each answered 429.
C6_Witness ==
    /\ op = "historical"
    /\ reqs = MAX_RETRY_ATTEMPTS
    /\ Len(answers) = MAX_RETRY_ATTEMPTS
    /\ \A i \in 1..Len(answers) : answers[i].status = 429
    /\ failed = Some(RateLimited)

\* The answer is a rate-limited one (a 429 status, or Err(RateLimited) of a
\* retried operation).
IsRateLimited(a) ==
    IF op = "historical" THEN a.status = 429 ELSE (~a.ok /\ a.value = RateLimited)

\* C7: in both retry loops the k-th wait is 100 * 5^(k-1) ms, every wait
\* follows a rate-limited attempt and is followed by another attempt, and no
\* wait follows a success, another error or the last allowed attempt.
C7_BackoffSchedule ==
    op \in {"historical", "carbon", "retry"} =>
        /\ \A k \in 1..Len(waits) :
              /\ waits[k] = 100 * Pow(5, k - 1)
              /\ IsRateLimited(answers[k])
              /\ k < reqs
        /\ pc \in {"page_backoff", "retry_backoff"} =>
              /\ IsRateLimited(Last(answers))
              /\ reqs < max_attempts
              /\ retry_delay_ms = 100 * Pow(5, Len(waits))
              /\ Len(waits) = Len(answers) - 1
        /\ pc \notin {"page_backoff", "retry_backoff"} =>
              Len(waits) = (IF reqs = 0 THEN 0 ELSE reqs - 1)

\* C7 witness: the page fetch has waited 100, 500 and 2500 ms and is answered
\* with a success, after which it does not wait.
C7_Witness ==
    /\ op = "historical"
    /\ waits = <<100, 500, 2500>>
    /\ Len(answers) = 4
    /\ Last(answers).status = 200 /\ Last(answers).parses
    /\ pc \in {"page_delay", "done"}

\* C8: in every fetch operation of the tariff client a RateLimited error
\* reaches the caller only after MAX_RETRY_ATTEMPTS requests, each answered
\* 429, and any other error that reaches the caller is the one the failing
\* answer was classified as.
C8_RateLimitedOnlyAfterRetries ==
    (op \in {"agile", "tracker", "historical"} /\ result # None /\ ~result[1].ok) =>
        IF result[1].value = RateLimited
        THEN /\ reqs = MAX_RETRY_ATTEMPTS
             /\ \A i \in 1..Len(answers) : answers[i].status = 429
        ELSE LET a == Last(answers)
             IN  result[1].value =
                    (IF a.transport # "none" THEN classify_error(a.transport)
                     ELSE IF is_success(a.status) THEN ParseError
                     ELSE error_for_status(a.status))

\* C9: retry_with_backoff invokes the operation at most max_attempts times,
\* again only after Err(RateLimited); it returns the first Ok and any other
\* error as soon as it is produced, and RateLimited when every allowed
\* attempt was rate limited.
C9_RetryWithBackoff ==
    op \in {"carbon", "retry"} =>
        /\ reqs <= max_attempts
        /\ Len(answers) <= reqs
        /\ \A i \in 1..Len(answers) : i < reqs => IsRateLimited(answers[i])
        /\ (answers # <<>> /\ ~IsRateLimited(Last(answers))) =>
              /\ pc = "done"
              /\ result = Some(Last(answers))
              /\ reqs = Len(answers)
        /\ (\A i \in 1..Len(answers) : IsRateLimited(answers[i])) =>
              IF Len(answers) = max_attempts
              THEN pc = "done" /\ result = Some(Err(RateLimited))
              ELSE pc # "done"

\* C9 witness: with three attempts allowed, two rate-limited attempts are
\* followed by a success, which is returned.
C9_Witness ==
    /\ op = "retry"
    /\ max_attempts = 3
    /\ Len(answers) = 3
    /\ IsRateLimited(answers[1]) /\ IsRateLimited(answers[2])
    /\ Last(answers).ok
    /\ result = Some(Last(answers))
    /\ waits = <<100, 500>>


(***************************************************************************)
(* Properties of the statistics over the whole index (SpecRates).          *)
(***************************************************************************)
RecordPrices == { records[i].value_inc_vat : i \in 1..Len(records) }

\* The exact sum of the records' f64 prices, in units of 2^-60.
RECURSIVE ExactSum(_)
ExactSum(d) ==
    IF d = <<>> THEN F64Zero
    ELSE NatAdd(F64Parse(Head(d).value_inc_vat), ExactSum(Tail(d)))

\* No addition of the running sum over the index rounded.
SumIsExact == FoldSum(data, F64Zero) = ExactSum(records)

\* An upper bound of n * x * 2^-53, the rounding error n - 1 additions and
\* one division can add to a value of size x.
RoundingSlack(x, n) ==
    LET a == NatDivSmall(x, 32768).q
        b == NatDivSmall(a, 32768).q
        c == NatDivSmall(b, 32768).q
        e == NatDivSmall(c, 256).q
    IN  <<n * (e[1] + 1), 0, 0, 0>>

\* min, max and avg are those of the whole index, whatever the instant.
StatsOverWholeIndex(s) ==
    /\ \A t \in Times :
          /\ stats_at(data, t).value.min = s.min
          /\ stats_at(data, t).value.max = s.max
          /\ stats_at(data, t).value.avg = s.avg
    /\ s.min \in RecordPrices /\ \A p \in RecordPrices : s.min <= p
    /\ s.max \in RecordPrices /\ \A p \in RecordPrices : s.max >= p
    /\ s.min <= s.max

\* C11 (as stated): on a non-empty index stats_at(t) reports min, max and avg
\* of every interval, the same for every t; min is the smallest price, max
\* the largest, avg the sum divided by the count, and min <= avg <= max.
C11_AvgBetweenMinAndMax ==
    (query.fn = "stats_at" /\ Len(records) > 0) =>
        LET s == query.out.value
        IN  /\ StatsOverWholeIndex(s)
            /\ s.avg = F64DivInt(FoldSum(data, F64Zero), Len(records))
            /\ F64Le(F64Parse(s.min), s.avg)
            /\ F64Le(s.avg, F64Parse(s.max))

\* C11 (amended): on a non-empty index stats_at(t) reports min, max and avg
\* of every interval, the same for every t; min is the smallest price, max
\* the largest, avg the f64 running sum in index order divided by the count.
\* min <= avg <= max holds when no addition of the running sum rounded, and
\* otherwise up to a relative rounding error of count * 2^-53.
C11_AvgBetweenUpToRounding ==
    (query.fn = "stats_at" /\ Len(records) > 0) =>
        LET s   == query.out.value
            n   == Len(records)
            min == F64Parse(s.min)
            max == F64Parse(s.max)
        IN  /\ StatsOverWholeIndex(s)
            /\ s.avg = F64DivInt(FoldSum(data, F64Zero), n)
            /\ SumIsExact =>
                  /\ s.avg = F64DivInt(ExactSum(records), n)
                  /\ F64Le(min, s.avg) /\ F64Le(s.avg, max)
            /\ F64Le(min, NatAdd(s.avg, RoundingSlack(s.avg, n)))
            /\ F64Le(s.avg, NatAdd(max, RoundingSlack(max, n)))

\* C11 witness: stats_at at an instant no interval covers, on an index of
\* differently priced intervals, with avg strictly between min and max.
C11_Witness ==
    /\ query.fn = "stats_at"
    /\ Len(records) > 1
    /\ rate_at(data, query.time) = None
    /\ query.out.ok
    /\ F64Lt(F64Parse(query.out.value.min), query.out.value.avg)
    /\ F64Lt(query.out.value.avg, F64Parse(query.out.value.max))


(***************************************************************************)
(* Properties of the date-aware queries (checked under SpecDays).          *)
(***************************************************************************)
Occurrences(s, r) == Cardinality({ i \in 1..Len(s) : s[i] = r })

RECURSIVE SumLen(_)
SumLen(ss) == IF ss = <<>> THEN 0 ELSE Len(Head(ss)) + SumLen(Tail(ss))

ValuesOf(s) == [i \in 1..Len(s) |-> s[i].value_inc_vat]

\* The intervals of the index that start on a date, by the date of valid_from.
StartsOn(date) ==
    LET on(r) == date_naive(r.valid_from) = date
    IN  SelectSeq(data, on)

\* C12: filter_for_date(d) returns exactly the intervals with
\* midnight(d) <= valid_from < midnight(d) + 1 day, so every interval belongs
\* to exactly one date; an interval ending at midnight(d) belongs to d - 1 and
\* not to d, and an interval starting at midnight(d) belongs to d.
C12_FilterForDate ==
    /\ \A i \in 1..Len(data) :
          Cardinality({ date \in QueryDates :
                          Occurrences(filter_for_date(data, date), data[i]) > 0 }) = 1
    /\ query.fn = "filter_for_date" =>
          LET m == StartOfDay(query.date)
          IN  \A i \in 1..Len(data) :
                LET r == data[i]
                IN  /\ Occurrences(query.out, r) =
                          (IF m <= r.valid_from /\ r.valid_from < m + QuartersPerDay
                           THEN Occurrences(data, r) ELSE 0)
                    /\ r.valid_to = m =>
                          /\ Occurrences(query.out, r) = 0
                          /\ Occurrences(filter_for_date(data, query.date - 1), r) > 0
                    /\ r.valid_from = m => Occurrences(query.out, r) > 0

\* C12 witness: a date queried on an index holding an interval that ends at
\* its midnight and an interval that starts at it; only the second is returned.
C12_Witness ==
    /\ query.fn = "filter_for_date"
    /\ \E i, j \in 1..Len(data) :
          /\ data[i].valid_to = StartOfDay(query.date)
          /\ data[j].valid_from = StartOfDay(query.date)
          /\ query.out = <<data[j]>>

\* C13: stats_for_date(d) is None exactly when no interval starts on d, which
\* is when has_data_for_date(d) is false; otherwise rate_count is the number
\* of intervals starting on d and min, max and avg are those of exactly them.
C13_StatsForDate ==
    query.fn = "stats_for_date" =>
        LET on == StartsOn(query.date)
            ps == { on[i].value_inc_vat : i \in 1..Len(on) }
        IN  /\ (query.out = None) <=> (on = <<>>)
            /\ (query.out = None) <=> ~query.has_data
            /\ on # <<>> =>
                  LET s == query.out[1]
                  IN  /\ s.rate_count = Len(on)
                      /\ s.min \in ps /\ \A p \in ps : s.min <= p
                      /\ s.max \in ps /\ \A p \in ps : s.max >= p
                      /\ s.avg = F64DivInt(FoldSum(on, F64Zero), Len(on))

\* C13 witness: a date holding one interval of an index of two differently
\* priced intervals; the statistics count and price that one only.
C13_Witness ==
    /\ query.fn = "stats_for_date"
    /\ Len(data) = 2
    /\ data[1].value_inc_vat # data[2].value_inc_vat
    /\ query.out # None
    /\ query.out[1].rate_count = 1
    /\ query.out[1].min = query.out[1].max

\* C14: daily_stats is Err(DataError) when no interval starts on today's date;
\* otherwise it is Ok whether or not tomorrow has data, tomorrow is Some
\* exactly when an interval starts on tomorrow's date, and a missing current
\* or next interval is reported as 0.0.
C14_DailyStats ==
    query.fn = "daily_stats" =>
        LET today == date_naive(query.now[1])
        IN  /\ StartsOn(today) = <<>> =>
                  (~query.out.ok /\ query.out.value.kind = "DataError")
            /\ StartsOn(today) # <<>> =>
                  /\ query.out.ok
                  /\ query.out.value.today = stats_for_date(data, today)[1]
                  /\ (query.out.value.tomorrow # None) <=> (StartsOn(today + 1) # <<>>)
                  /\ StartsOn(today + 1) # <<>> =>
                        query.out.value.tomorrow = stats_for_date(data, today + 1)
                  /\ rate_at(data, query.now[2]) = None => query.out.value.current = 0
                  /\ next_rate(data, query.now[3]) = None => query.out.value.next = 0

\* C14 witness: today has data, tomorrow has none and no interval covers the
\* clock; daily_stats is Ok with tomorrow None and current and next 0.0.
C14_Witness ==
    /\ query.fn = "daily_stats"
    /\ StartsOn(date_naive(query.now[1]) + 1) = <<>>
    /\ rate_at(data, query.now[2]) = None
    /\ query.out.ok
    /\ query.out.value.tomorrow = None
    /\ query.out.value.current = 0
    /\ query.out.value.next = 0

\* The intervals of the index that start in half-hour slot k of their day.
InSlot(k) ==
    LET in(r) == (r.valid_from % QuartersPerDay) \div 2 = k
    IN  SelectSeq(data, in)

\* C19: grouped_by_half_hour_slot returns 48 buckets; the value of each
\* interval is in the bucket of the half hour of its valid_from and in no
\* other, the bucket sizes sum to the number of intervals, and a bucket holds
\* its values in ascending valid_from order.
C19_GroupedByHalfHourSlot ==
    query.fn = "grouped_by_half_hour_slot" =>
        /\ Len(query.out) = 48
        /\ SumLen(query.out) = Len(records)
        /\ \A i, j \in 1..Len(data) : i < j => data[i].valid_from <= data[j].valid_from
        /\ \A k \in 0..47 : query.out[k + 1] = ValuesOf(InSlot(k))
        /\ \A i \in 1..Len(data) :
              LET t == data[i].valid_from
              IN  InSlot(hour(t) * 2 + minute(t) \div 30)[
                      Cardinality({ j \in 1..i :
                          slot_of(data[j].valid_from) = slot_of(t) })] = data[i]

\* C19 witness: two intervals at 00:45 of different dates, given latest
\* first; bucket 1 holds their values earliest first.
C19_Witness ==
    /\ query.fn = "grouped_by_half_hour_slot"
    /\ Len(records) = 2
    /\ records[1].valid_from > records[2].valid_from
    /\ records[1].value_inc_vat # records[2].value_inc_vat
    /\ hour(records[1].valid_from) = 0 /\ minute(records[1].valid_from) = 45
    /\ query.out[2] = <<records[2].value_inc_vat, records[1].value_inc_vat>>


(***************************************************************************)
(* Properties of the cheapest period (checked under SpecWindow).           *)
(***************************************************************************)
\* The intervals of the index with lo <= valid_from < hi, in index order.
StartingIn(lo, hi) ==
    LET in(r) == lo <= r.valid_from /\ r.valid_from < hi
    IN  SelectSeq(data, in)

\* C15 (as stated): with from the start of the window and a duration of 3
\* hours, the selection considers exactly the intervals with
\* from <= valid_from < from + duration, in index order, and yields None
\* exactly when no interval lies in that window.
C15_WindowFromStart ==
    query.fn = "cheapest_period" =>
        LET from == duration_trunc(query.now, 2)
            w    == StartingIn(from, from + 12)
        IN  /\ query.scan = w
            /\ (query.out = None) <=> (w = <<>>)

\* C15 (amended): with from = now truncated to the half hour, the selection
\* considers exactly the intervals with from <= valid_from < now + 3 hours, in
\* index order, and yields None exactly when no interval lies in that window;
\* the window is [from, from + 3 hours) only when now is on a half hour.
C15_WindowUntilNowPlus3h ==
    query.fn = "cheapest_period" =>
        LET from == duration_trunc(query.now, 2)
            w    == StartingIn(from, query.now + 12)
        IN  /\ query.scan = w
            /\ (query.out = None) <=> (w = <<>>)
            /\ query.now = from => w = StartingIn(from, from + 12)

\* C15 witness: the clock is off the half hour and the index holds an interval
\* starting 3 hours after the start of the current half hour; it is scanned.
C15_Witness ==
    /\ query.fn = "cheapest_period"
    /\ query.now % 2 = 1
    /\ \E i \in 1..Len(query.scan) :
          query.scan[i].valid_from = duration_trunc(query.now, 2) + 12
    /\ query.out # None

\* C16: the selection returns the valid_from (shown as local HH:MM) of an
\* interval of its window whose price is the minimum of the window, and of
\* several intervals at that minimum the earliest.
C16_CheapestEarliest ==
    (query.fn = "cheapest_period" /\ query.scan # <<>>) =>
        LET w == query.scan
            c == query.cheapest[1]
        IN  /\ \E i \in 1..Len(w) :
                  /\ w[i] = c
                  /\ \A j \in 1..Len(w) : w[j].value_inc_vat >= c.value_inc_vat
                  /\ \A j \in 1..Len(w) :
                        w[j].value_inc_vat = c.value_inc_vat =>
                            (w[j].valid_from >= c.valid_from /\ j >= i)
            /\ query.out = Some(<<((c.valid_from + query.utc_offset) % 96) \div 4,
                                   ((c.valid_from + query.utc_offset) % 4) * 15>>)

\* C16 witness: the window holds a dearer interval first and then two
\* intervals at the minimum price; the earlier of the two is returned.
C16_Witness ==
    /\ query.fn = "cheapest_period"
    /\ Len(query.scan) = 3
    /\ query.scan[1].value_inc_vat > query.scan[2].value_inc_vat
    /\ query.scan[2].value_inc_vat = query.scan[3].value_inc_vat
    /\ query.scan[2].valid_from < query.scan[3].valid_from
    /\ query.cheapest = Some(query.scan[2])


(***************************************************************************)
(* Properties of Region and the request periods (checked under SpecConfig).*)
(***************************************************************************)
UpperCodes ==
    {
      "A", "B", "C", "D", "E", "F", "G", "H", "J", "K", "L", "M", "N", "P" }

LowerCodes ==
    {
      "a", "b", "c", "d", "e", "f", "g", "h", "j", "k", "l", "m", "n", "p" }

\* The lower-case form of a region's code.
LowerCodeOf(r) ==
    LET c == code(r)[1]
    IN  <<(CHOOSE p \in LowerUpper : p[2] = c)[1]>>

\* C17: Region parsing accepts exactly the 14 codes A-H, J-N and P in either
\* letter case: parsing r.code() or its lower-case form returns r, and every
\* other string (such as "I" or "X") returns a ConfigError value.
C17_RegionParsing ==
    /\ Cardinality(UpperCodes) = 14 /\ Cardinality(Region) = 14
    /\ \A r \in Region :
          /\ code(r)[1] \in UpperCodes /\ LowerCodeOf(r)[1] \in LowerCodes
          /\ from_str(code(r)) = Ok(r)
          /\ from_str(LowerCodeOf(r)) = Ok(r)
    /\ query.fn = "from_str" =>
          /\ query.out.ok <=>
                (Len(query.s) = 1 /\ query.s[1] \in UpperCodes \cup LowerCodes)
          /\ query.out.ok =>
                (query.s = code(query.out.value) \/ query.s = LowerCodeOf(query.out.value))
          /\ ~query.out.ok => query.out.value.kind = "ConfigError"
          /\ query.s \in {<<"I">>, <<"X">>} => ~query.out.ok

\* C17 witness: the lower-case code "m" has been parsed to Region::M.
C17_Witness ==
    /\ query.fn = "from_str"
    /\ query.s = <<"m">>
    /\ query.out = Ok("Region::M")

\* C18: with m = 00:00 UTC of now's date, the live window is [m, m + 2 days)
\* and the historical window for N days is [m - N days, m); the live window
\* contains now, the historical window ends where the live one starts, and
\* no instant is in both.
C18_RequestPeriods ==
    /\ query.fn = "agile_url" =>
          LET m == (query.now \div 96) * 96
          IN  /\ query.out = <<m, m + 2 * 96>>
              /\ query.out[1] <= query.now /\ query.now < query.out[2]
              /\ \A n \in NDays :
                    calculate_historical_period(query.now, n)[2] = query.out[1]
    /\ query.fn = "agile_url_historical" =>
          LET m    == (query.now \div 96) * 96
              live == calculate_period(query.now)
          IN  /\ query.out = <<m - query.n_days * 96, m>>
              /\ query.out[2] = live[1]
              /\ \A t \in (m - 2 * 96)..(m + 2 * 96) :
                    ~(/\ query.out[1] <= t /\ t < query.out[2]
                      /\ live[1] <= t /\ t < live[2])

\* C18 witness: at the last quarter hour of a date the 365 day historical
\* window has been computed; it ends at that date's midnight, before now.
C18_Witness ==
    /\ query.fn = "agile_url_historical"
    /\ query.n_days = 365
    /\ query.now % 96 = 95
    /\ query.out[2] = query.now - 95
    /\ query.out[2] - query.out[1] = 365 * 96


(***************************************************************************)
(* Properties of the page sequence of fetch_paginated (checked under Spec).*)
(***************************************************************************)
\* C20: fetch_paginated has at most one request outstanding; it requests
\* page k + 1 only after page k returned successfully with a next link, and
\* at exactly the URL of that link (page 1 at the initial URL); its result is
\* the records of the fetched pages concatenated in page order, each once.
C20_SequentialPages ==
    op = "historical" =>
        /\ reqs - Len(answers) \in {0, 1}
        /\ pc # "page_await" => reqs = Len(answers)
        /\ Len(links) = Len(fetched)
        /\ \A r \in requested :
              /\ r.after <= Len(fetched)
              /\ IF r.after = 0 THEN r.url = InitialUrl
                 ELSE links[r.after] = Some(r.url)
        /\ \A k \in 0..Len(fetched) :
              Cardinality({ r \in requested : r.after = k }) <= 1
        /\ (result # None /\ result[1].ok) => result[1].value = Concat(fetched)

\* C20 witness: three pages were fetched, the second at the link the first
\* gave and the third at the link the second gave; the result is the three
\* payloads in page order.
C20_Witness ==
    /\ op = "historical" /\ pc = "done"
    /\ Len(fetched) = 3
    /\ links[1] = Some(3) /\ links[2] = Some(2) /\ links[3] = None
    /\ requested = { [after |-> 0, url |-> InitialUrl],
                     [after |-> 1, url |-> 3],
                     [after |-> 2, url |-> 2] }
    /\ fetched[1] # <<>> /\ fetched[2] # <<>> /\ fetched[1] # fetched[2]
    /\ result = Some(Ok(fetched[1] \o fetched[2] \o fetched[3]))


(***************************************************************************)
(* Properties of the inter-page delay (checked under Spec).                *)
(***************************************************************************)
LinksWithNext == Cardinality({ i \in 1..Len(links) : links[i] # None })

\* C21: the inter-page delay of PAGINATION_DELAY_MS is applied exactly once
\* between a successful page that carries a next link and the request for
\* the next page; it is not applied after the last page or after a failed
\* page, and its length does not depend on the backoff retries of the page.
C21_InterPageDelay ==
    op = "historical" =>
        /\ \A i \in 1..Len(page_delays) : page_delays[i] = PAGINATION_DELAY_MS
        /\ Len(page_delays) = (IF pc = "page_delay" THEN LinksWithNext - 1
                                                    ELSE LinksWithNext)
        /\ \A r \in requested : Len(page_delays) >= r.after
        /\ pc = "page_delay" => (links # <<>> /\ Last(links) # None)
        /\ (pc = "done" /\ failed = None) =>
              (Last(links) = None /\ Len(page_delays) = Len(fetched) - 1)
        /\ failed # None => Len(page_delays) = Len(fetched)

\* C21 witness: three pages were fetched, the last after a backoff wait; two
\* delays of PAGINATION_DELAY_MS were taken, none after the last page.
C21_Witness ==
    /\ op = "historical" /\ pc = "done" /\ failed = None
    /\ Len(fetched) = 3
    /\ waits # <<>>
    /\ page_delays = <<PAGINATION_DELAY_MS, PAGINATION_DELAY_MS>>


(***************************************************************************)
(* Properties of the polling hooks (checked under SpecHook).               *)
(***************************************************************************)
\* C22: once the cleanup of an effect run has run, the task that run started
\* never writes the data state and never sets the trigger, whatever the
\* order of fetch completion, timer expiry and cleanup; a result fetched for
\* a superseded region is never the displayed state.
C22_AbortedTaskWritesNothing ==
    /\ \A c \in checks : c.written <=> ~c.aborted
    /\ state.task # 0 =>
          [task |-> state.task, what |-> "state", aborted |-> FALSE, written |-> TRUE]
              \in checks
    /\ (hook \in RegionHooks /\ mounted /\ state.tag # "Loading") =>
          /\ state.task = Len(tasks)
          /\ state.region = deps[1][2]
    /\ \A i \in 1..Len(tasks) :
          (tasks[i].aborted /\ tasks[i].pc = "fetch") => state.task # i

\* C22 witness: the region changed while a fetch was in flight; the fetch
\* for the old region returned after the cleanup and its result was dropped.
C22_Witness ==
    /\ hook = "use_rates"
    /\ Len(tasks) = 2
    /\ tasks[1].region # tasks[2].region
    /\ tasks[1].pc = "done"
    /\ [task |-> 1, what |-> "state", aborted |-> TRUE, written |-> FALSE] \in checks
    /\ state.task # 1

\* C23: in use_rates and use_tracker_rates the data state leaves a loaded
\* snapshot for Loading only when the region changes; a periodic re-fetch
\* for the same region keeps the snapshot until the new result is set.
C23_LoadingOnlyOnRegionChange ==
    [][(hook \in RegionHooks /\ state.tag = "Loaded" /\ state'.tag = "Loading")
          => tasks'[Len(tasks')].region # state.region]_vars


(***************************************************************************)
(* Properties of the clock reads of daily_stats (checked under SpecDays).  *)
(***************************************************************************)
\* C24: daily_stats is evaluated against one reference instant: whatever the
\* clock does during the call, its result (today, tomorrow, current, next) is
\* what the computation with one explicit instant t of the call gives, so
\* next follows current and both belong to the same today.
C24_SingleReferenceInstant ==
    query.fn = "daily_stats" =>
        \E t \in query.now[1]..query.now[3] :
            query.out = daily_stats(data, t, t, t)


(***************************************************************************)
(* Properties of the debounced resize listener (checked under SpecResize). *)
(***************************************************************************)
C25_Safety ==
    /\ Cardinality(timers) <= 1
    /\ \A i \in 1..Len(runs) :
          /\ runs[i].after >= 1
          /\ runs[i].at - resized[runs[i].after] >= delay_ms
    /\ \A i, j \in 1..Len(runs) : i # j => runs[i].after # runs[j].after

C25_OneRunAfterLastEvent ==
    (listening /\ resized # <<>>) =>
        Cardinality({ i \in 1..Len(runs) : runs[i].after = Len(resized) }) = 1

\* C25: the callback runs only when delay_ms has passed since the most recent
\* resize event; every resize event cancels the pending timeout before it
\* schedules a new one, so at most one timeout is pending, and a burst of
\* resize events leads to exactly one callback run, after its last event
\* (while the listener is alive).
C25_Debounce == []C25_Safety /\ <>[]C25_OneRunAfterLastEvent

\* C25 witness: three resize events less than delay_ms apart and one callback
\* run, after the third.
C25_Witness ==
    /\ listening
    /\ Len(resized) = 3
    /\ resized[2] - resized[1] < delay_ms
    /\ resized[3] - resized[2] < delay_ms
    /\ Len(runs) = 1
    /\ runs[1].after = 3


(***************************************************************************)
(* Properties of Rates::new (checked under SpecRates).                     *)
(***************************************************************************)
\* The ways to place the positions of a sequence of length n.
Placements(n) ==
    { p \in [1..n -> 1..n] : \A i, j \in 1..n : i # j => p[i] # p[j] }

Reordered(d, p) == [i \in 1..Len(d) |-> d[p[i]]]

\* sorted is d placed in ascending key order, equal keys in their order in d.
StableSortOf(sorted, d) ==
    /\ Len(sorted) = Len(d)
    /\ \E p \in Placements(Len(d)) :
          /\ sorted = Reordered(d, p)
          /\ \A i, j \in 1..Len(d) :
                i < j => \/ d[p[i]].valid_from < d[p[j]].valid_from
                         \/ (d[p[i]].valid_from = d[p[j]].valid_from /\ p[i] < p[j])

DistinctKeys(d) ==
    \A i, j \in 1..Len(d) : i # j => d[i].valid_from # d[j].valid_from

QueryOf(d) ==
    CASE query.fn = "rate_at"   -> rate_at(d, query.time)
      [] query.fn = "next_rate" -> next_rate(d, query.time)
      [] query.fn = "stats_at"  -> stats_at(d, query.time)
      [] query.fn = "current_rate" -> tracker_current_rate(d, query.time)
      [] OTHER                  -> None

\* The record a query at the instant steps back to: of the input records of
\* the greatest valid_from not after the instant, the last one in the input.
LastInInput(d, time) ==
    LET started == { k \in 1..Len(d) : d[k].valid_from <= time }
        newest  == { k \in started :
                       \A m \in started : d[m].valid_from <= d[k].valid_from }
    IN  IF started = {} THEN None
        ELSE Some(d[CHOOSE k \in newest : \A m \in newest : m <= k])

\* C26: the stored sequence is the input sorted ascending by valid_from with
\* equal keys in input order, before and after every query; for pairwise
\* distinct valid_from every query gives the same result for every order of
\* the input; and rate_at decides on the record that came last in the input
\* among those of the greatest valid_from not after the instant.
C26_StableSort ==
    /\ StableSortOf(data, records)
    /\ (query.fn # "none" /\ DistinctKeys(records)) =>
          \A p \in Placements(Len(records)) :
              QueryOf(RatesNew(Reordered(records, p))) = query.out
    /\ query.fn = "rate_at" =>
          LET candidate == LastInInput(records, query.time)
          IN  query.out = IF candidate # None /\ candidate[1].valid_to > query.time
                          THEN candidate ELSE None

\* C26 witness: an input out of order with two records of one valid_from,
\* and rate_at returning the later of the two.
C26_Witness ==
    /\ Len(records) = 3
    /\ records[1].valid_from = records[3].valid_from
    /\ records[1] # records[3]
    /\ records[2].valid_from < records[1].valid_from
    /\ query.fn = "rate_at"
    /\ query.out = Some(records[3])


(***************************************************************************)
(* Properties of the two retry loops side by side (checked under           *)
(* SpecReplay).                                                            *)
(***************************************************************************)
Replaying == script # None /\ op = "retry"

\* C27: given the attempt count of a fetch_page_with_retry call and what each
\* of its attempts came to, retry_with_backoff makes no attempt the page loop
\* did not make, waits as it waited, and ends with as many attempts, the same
\* waits and the same outcome; so too for a count of 0 or 1.
C27_SameAttemptsWaitsOutcome ==
    Replaying =>
        /\ max_attempts = script[1].max_attempts
        /\ reqs <= script[1].reqs
        /\ Len(waits) <= Len(script[1].waits)
        /\ waits = SubSeq(script[1].waits, 1, Len(waits))
        /\ pc = "done" =>
              /\ reqs = script[1].reqs
              /\ waits = script[1].waits
              /\ result = Some(script[1].outcome)

\* C27 witness: both loops gave up at the third 429 of three attempts, after
\* waits of 100 and 500 ms.
C27_Witness ==
    /\ Replaying
    /\ pc = "done"
    /\ max_attempts = 3
    /\ reqs = 3
    /\ waits = <<100, 500>>
    /\ result = Some(Err(RateLimited))


(***************************************************************************)
(* Properties of TrackerRates::current_rate (checked under SpecRates).     *)
(***************************************************************************)
\* C28: for pairwise non-overlapping intervals and every now, the linear scan
\* of TrackerRates::current_rate gives the interval Rates::rate_at(now) gives
\* for the same records, and None when rate_at gives None.
C28_CurrentRateIsRateAt ==
    (query.fn = "current_rate" /\ NonOverlapping(records)) =>
        query.out = rate_at(data, query.time)

\* C28 witness: three non-overlapping intervals given out of order, and the
\* scan finding the second of the sorted sequence.
C28_Witness ==
    /\ query.fn = "current_rate"
    /\ NonOverlapping(records)
    /\ Len(records) = 3
    /\ records # data
    /\ query.out = Some(data[2])


(***************************************************************************)
(* Termination of fetch_paginated (checked under SpecAnswered).            *)
(***************************************************************************)
C29_Bounded ==
    op = "historical" =>
        /\ reqs <= MAX_RETRY_ATTEMPTS
        /\ (pc = "done" /\ failed = None) =>
              (links # <<>> /\ links[Len(links)] = None)

\* C29: when every request gets an answer and the chain of next links is
\* finite, every fetch_paginated call ends; it sends at most
\* MAX_RETRY_ATTEMPTS requests for a page, and it stops at no page count of
\* its own: without a failed page it ends only at a page with no next link.
C29_Terminates == []C29_Bounded /\ ((op = "historical") ~> (pc = "done"))

\* C29 witness: a call that ended at the last page of the longest chain,
\* that page answered 429 before it was fetched.
C29_Witness ==
    /\ op = "historical"
    /\ pc = "done"
    /\ failed = None
    /\ Len(fetched) = MaxPages
    /\ reqs > 1


(***************************************************************************)
(* Properties of the backoff delay as a u32 (checked under Spec).          *)
(***************************************************************************)
LargestDelay == INITIAL_DELAY_MS * Pow(BACKOFF_MULTIPLIER, MAX_RETRY_ATTEMPTS - 1)

\* C30: in fetch_page_with_retry and in retry_with_backoff as the carbon
\* client calls it, the u32 delay is the exact product 100 * 5^k after k
\* waits, with k at most MAX_RETRY_ATTEMPTS - 1: its largest value,
\* 100 * 5^9 ms, is below 2^32, so no multiplication wraps.
C30_DelayNeverOverflows ==
    /\ LargestDelay \div U16 < U16
    /\ op \in {"historical", "carbon"} =>
          /\ Len(waits) <= MAX_RETRY_ATTEMPTS - 1
          /\ retry_delay_ms = INITIAL_DELAY_MS * Pow(BACKOFF_MULTIPLIER, Len(waits))
          /\ retry_delay_ms <= LargestDelay

\* C30 witness: the delay of a page fetch after its ninth wait.
C30_Witness ==
    /\ op = "historical"
    /\ Len(waits) = MAX_RETRY_ATTEMPTS - 1
    /\ retry_delay_ms = 195312500

====
